---- MODULE Spec2Model ----
(***************************************************************************)
(* Model of the checkbox-action consumer of mcb_api:                       *)
(*   cmd/backend/main.go                  the poll loop                    *)
(*   internal/workers/backend             ConsumeCheckboxActionQueue and   *)
(*                                        processCheckboxActionMessage     *)
(*   internal/dbservice                   UpdateCheckbox and the pool      *)
(*   internal/queueservice                the FIFO transport (SQS)         *)
(*                                                                         *)
(* The database is modelled by what its transactions guarantee: the        *)
(* writes of an open transaction are private to it and become durable,     *)
(* all together, when CommitTx succeeds.  The transport is an SQS FIFO     *)
(* queue: a message is visible, in flight (received, lease running) or     *)
(* deleted, and messages of one message group are handed out in order.     *)
(***************************************************************************)
EXTENDS Integers, Sequences, FiniteSets, TLC

\* ---------------------------------------------------------------- bounds
MaxMsgs  == 2      \* messages ever published
NumRows  == 1      \* rows 0..NumRows-1 exist (the program has 1,000,000)
NumUsers == 1      \* distinct user uuids
MaxClock == 1           \* time.Now() ranges over 0..MaxClock
StoreSize == 3          \* cells of the memory store (the program has 1,000,000)
TicksPerSecond == 10    \* resolution of measured durations: ticks in a second
MaxRuntime == 60        \* a cycle runs 0..MaxRuntime ticks
MaxReceived == 101      \* the receive of the batch-size model returns 0..MaxReceived messages
MaxPublishes == 3       \* calls of the publisher in the publish model
NumRequests == 2        \* distinct request uuids in the publish model
NumCallers == 3         \* goroutines calling the queue service at once
MaxParamLen == 3        \* length of the generated checkboxNbr path parameters
NumWorkers == 2         \* workers of the worker pool
MaxDispatch == 3        \* calls of WorkerPool.dispatch
NumPoolCheckboxes == 3  \* checkbox numbers 0..NumPoolCheckboxes-1 reach the worker pool
NumRecorders == 2       \* goroutines calling Stats.record
NumSnapshotters == 1    \* goroutines calling Stats.snapshot
MaxRecords == 3         \* calls of Stats.record
MaxDuration == 2        \* WorkerResult.Duration ranges over 0..MaxDuration
MaxDbCommits == 2       \* committed changes of CHECKED_STATE in the refresh model
MaxPoolCalls == 6       \* calls of the functions of postgreservice.go

\* ------------------------------------------------------ program constants
MaxMessagesPerBatch == 100         \* backendworker.go:38
consumeCheckboxActionMinSleepTimeDuration == 5   \* main.go:16, in seconds
sleepTimeMultiplier == 5                         \* main.go:17
NumCheckboxes == 1000000                         \* validation.go:26

Rows         == 0 .. (NumRows - 1)
CheckboxNbrs == 0 .. NumRows       \* NumRows itself has no row
Users        == 1 .. NumUsers
NilUuid      == 0                  \* part_001:13
Actions      == {"check", "uncheck"}
Forms        == {"ok", "badjson", "baduser", "badreq"}

CheckboxActionChecked == "check"

ResultSuccess == "Success"
ResultFailure == "Failure"

VARIABLES
    msgs,        \* transport: the published messages, in publish order
    status,      \* transport: per message "visible" | "inflight" | "deleted"
    pool,        \* dbservice.pool: "nil" | "open"
    checkbox_t,  \* MCB.CHECKBOX_T: row -> CHECKED_STATE
    details_t,   \* MCB.CHECKBOX_DETAILS_T: row -> [by, req, at]
    now,         \* the wall clock read by time.Now()
    cancelled,   \* ctx.Done() is closed
    mpc,         \* main: "select" | "consume" | "collect" | "sleep" | "exit"
    batch,       \* ConsumeCheckboxActionQueue: messages (ids) of this cycle
    units,       \* one goroutine per message of the batch
    c,           \* the completion channel
    i,           \* results collected so far
    processed,
    failed,
    result,
    lastResult,  \* the QueueConsumerResult the last cycle returned
    bpc,         \* batch-size model: position in ConsumeCheckboxActionQueue
    bReceived,   \* batch-size model: len(messages)
    bDispatched, \* batch-size model: goroutines started
    bI,
    bProcessed,
    bFailed,
    bCalled,     \* batch-size model: some unit called UpdateCheckbox / DeleteMessage
    bResult,
    store,       \* memorystore.store: index -> bool (the empty function is nil)
    storeLen,    \* memorystore.storeLen
    initialized, \* memorystore.initialized
    cacheRes,    \* memorystore: the last call and what it returned
    cycleKind,   \* backoff: how the measured cycle ended
    cycleRuntime, \* backoff: endtime.Sub(starttime), in ticks
    sleeptime,   \* backoff: the sleep main computed, in ticks
    snsCalls,    \* publish: every call of the publisher: payload, publish input, outcome
    snsDedup,    \* publish: deduplication ids the FIFO topic still remembers
    snsTopic,    \* publish: the messages the FIFO topic accepted for delivery
    sqsStatus,   \* publish: per topic message, its state in the subscribed queue
    sqsReceived, \* publish: the messages the last PullCheckboxActionMessages returned
    sqsDeleteRes, \* publish: the last DeleteMessage call and the error it returned
    providerInstance, \* queueservice.providerInstance: 0 is nil, else the instance allocated
    onceDone,    \* providerOnce: its done flag
    onceLock,    \* providerOnce: the caller holding its mutex, 0 when free
    selections,  \* provider: times the function given to providerOnce.Do was started
    provPc,      \* provider: per caller, its position in getQueueProvider
    provOp,      \* provider: per caller, the operation that called getQueueProvider
    provUsed,    \* provider: per caller, the instance its last call got (0: nil or none)
    apiRes,      \* api: the last call of checkboxCheck / checkboxUncheck and what it did
    wpCtxDone,   \* pool: the context given to start is cancelled
    wpStarted,   \* pool: WorkerPool.start was called
    wpWorkerPc,  \* pool: per worker, the position of its goroutine
    wpMsgChan,   \* pool: per worker, Worker.msgChan (capacity 1)
    wpCur,       \* pool: per worker, the message and outcome it is working on
    wpQuit,      \* pool: per worker, Worker.quit is closed
    wpResultCh,  \* pool: WorkerPool.resultCh (capacity 2 * numWorkers)
    wpResultClosed, \* pool: resultCh is closed
    wpCollectorPc,  \* pool: position of collectResults
    wpReporterPc,   \* pool: position of reportStats
    wpStats,     \* pool: WorkerPool.stats
    wpReported,  \* pool: the snapshot printStats logged last
    wpWg,        \* pool: the counter of WorkerPool.wg
    wpShutdownPc, \* pool: position of shutdown
    wpDispatched, \* pool: every dispatch call: message, worker chosen, accepted or not
    wpApplied,   \* pool: ids of the messages in the order their processing began
    wpPanic,     \* pool: a send on, or a second close of, a closed channel happened
    stStats,     \* stats: the fields of one Stats value
    stWriter,    \* stats: the goroutine holding mu for writing, 0 for none
    stReaders,   \* stats: number of goroutines holding mu for reading
    stRecPc,     \* stats: position of each goroutine in record
    stRecArg,    \* stats: the result each goroutine is recording
    stSnapPc,    \* stats: position of each goroutine in snapshot
    stSnap,      \* stats: the named results of each goroutine's snapshot
    stDone,      \* stats: number of record calls that have returned
    rfDb,        \* refresh: CHECKED_STATE of the rows of MCB.CHECKBOX_T, in CHECKBOX_NBR order
    rfLoadPc,    \* refresh: position of LoadCheckboxesFromStore
    rfSnapshot,  \* refresh: the array GetFullCheckboxStore returned to it
    rfCommits,   \* refresh: number of committed changes of CHECKED_STATE
    dpPool,      \* db pool: the package variable pool, "nil" or "open"
    dpPinged,    \* db pool: the pool that exists has answered a Ping
    dpRes,       \* db pool: the last call and the error it returned
    dpCalls      \* db pool: number of calls made

mainVars  == <<msgs, status, pool, checkbox_t, details_t, now, cancelled, mpc,
               batch, units, c, i, processed, failed, result, lastResult>>
batchVars == <<bpc, bReceived, bDispatched, bI, bProcessed, bFailed, bCalled, bResult>>
cacheVars == <<store, storeLen, initialized, cacheRes>>
backoffVars == <<cycleKind, cycleRuntime, sleeptime>>
sqsVars == <<sqsStatus, sqsReceived, sqsDeleteRes>>
publishVars == <<snsCalls, snsDedup, snsTopic, sqsVars>>
providerVars == <<providerInstance, onceDone, onceLock, selections, provPc, provOp, provUsed>>
apiVars   == <<apiRes>>
poolVars  == <<wpCtxDone, wpStarted, wpWorkerPc, wpMsgChan, wpCur, wpQuit, wpResultCh,
               wpResultClosed, wpCollectorPc, wpReporterPc, wpStats, wpReported, wpWg,
               wpShutdownPc, wpDispatched, wpApplied, wpPanic>>
statsVars == <<stStats, stWriter, stReaders, stRecPc, stRecArg, stSnapPc, stSnap, stDone>>
refreshVars == <<rfDb, rfLoadPc, rfSnapshot, rfCommits>>
dbPoolVars == <<dpPool, dpPinged, dpRes, dpCalls>>
sideVars  == <<cacheVars, backoffVars, publishVars, providerVars, apiVars, poolVars, statsVars,
               refreshVars,
               dbPoolVars>>
vars      == <<mainVars, batchVars, sideVars>>

\* ------------------------------------------------------------- helpers
MsgIds == 1 .. Len(msgs)

\* queueservice.PublishCheckboxAction: GroupId is "checkbox-<CheckboxNbr>".
GroupId(m) == msgs[m].nbr

\* The request uuid of a message is unique per publish (it is the
\* deduplication id, so the transport holds no two messages with the same one).
RequestUuid(m) == m

NoDetails == [by |-> NilUuid, req |-> NilUuid, at |-> 0]

NoTx == [open |-> FALSE, state |-> FALSE, details |-> NoDetails]

\* A unit of work: the goroutine of backendworker.go:57-65 for one message.
\* committed: UpdateCheckbox returned nil; sent / res: what it put on c.
NewUnit(m) == [msg |-> m, pc |-> "decode", tx |-> NoTx, committed |-> FALSE,
               err |-> "none", sent |-> 0, res |-> "none"]

RECURSIVE SortedSeq(_)
SortedSeq(S) ==
    IF S = {} THEN <<>>
    ELSE LET lo == CHOOSE x \in S : \A y \in S : x <= y
         IN  <<lo>> \o SortedSeq(S \ {lo})

\* What an SQS FIFO receive may hand out: visible messages, none of a group
\* that has a message in flight, and of each group an initial run of its
\* visible messages.
Deliverable(S) ==
    /\ S \subseteq {m \in MsgIds : status[m] = "visible"}
    /\ \A m \in S :
          /\ ~\E k \in MsgIds : status[k] = "inflight" /\ GroupId(k) = GroupId(m)
          /\ \A k \in MsgIds :
                (k < m /\ GroupId(k) = GroupId(m) /\ status[k] = "visible") => k \in S

ConsumerResult(r, n) == [Result |-> r, NumProcessed |-> n]

\* No call of ConsumeCheckboxActionQueue has returned in this pass of the loop.
NoResult == ConsumerResult("none", 0)

\* The guard with >= for >.
TooManyMessages_OffByOne(n) == n >= MaxMessagesPerBatch

\* backendworker.go:38  if len(messages) > 100
TooManyMessages(n) == n > MaxMessagesPerBatch

IdleCycle ==
    /\ batch' = <<>>
    /\ units' = <<>>
    /\ c' = <<>>
    /\ i' = 0
    /\ processed' = 0
    /\ failed' = 0
    /\ result' = ResultSuccess

\* part_005:13  var store []bool
NilStore == [x \in {} |-> FALSE]

\* make([]bool, n)
MakeStore(n) == [x \in 0 .. (n - 1) |-> FALSE]

\* A call of the memory store and its outcome: out is "ok", "InternalError",
\* "DatabaseError" or "panic"; val is the bool a read returned.
CacheCall(op, n, v, out, val) == [op |-> op, n |-> n, v |-> v, out |-> out, val |-> val]

NoCall == CacheCall("none", 0, FALSE, "ok", FALSE)

\* pool: a worker with no message in hand; Stats{} (workerpool.go:21-27, 143)
NoWork == [id |-> 0, nbr |-> 0, success |-> FALSE]

NoStats == [processed |-> 0, succeeded |-> 0, failed |-> 0, totalTime |-> 0]

\* api: no request is being served
NoRequest ==
    [handler |-> "none", param |-> <<>>, nbr |-> 0, err |-> "nil", why |-> "",
     status |-> 0, published |-> FALSE, payloadNbr |-> 0, payloadAction |-> ""]

\* ----------------------------------------------------------------- Init
Init ==
    /\ msgs = <<>>
    /\ status = <<>>
    /\ pool = "nil"
    /\ checkbox_t = [n \in Rows |-> FALSE]
    /\ details_t = [n \in Rows |-> [by |-> NilUuid, req |-> NilUuid, at |-> 0]]
    /\ now = 0
    /\ cancelled = FALSE
    /\ mpc = "select"
    /\ batch = <<>>
    /\ units = <<>>
    /\ c = <<>>
    /\ i = 0
    /\ processed = 0
    /\ failed = 0
    /\ result = ResultSuccess
    /\ lastResult = NoResult
    /\ bpc = "idle"
    /\ bReceived = 0
    /\ bDispatched = 0
    /\ bI = 0
    /\ bProcessed = 0
    /\ bFailed = 0
    /\ bCalled = FALSE
    /\ bResult = NoResult
    /\ store = NilStore
    /\ storeLen = 0
    /\ initialized = FALSE
    /\ cacheRes = NoCall
    /\ cycleKind = "none"
    /\ cycleRuntime = 0
    /\ sleeptime = 0
    /\ snsCalls = <<>>
    /\ snsDedup = {}
    /\ snsTopic = <<>>
    /\ sqsStatus = <<>>
    /\ sqsReceived = <<>>
    /\ sqsDeleteRes = [MessageId |-> 0, err |-> "nil"]
    /\ providerInstance = 0
    /\ onceDone = FALSE
    /\ onceLock = 0
    /\ selections = 0
    /\ provPc = [g \in 1 .. NumCallers |-> "idle"]
    /\ provOp = [g \in 1 .. NumCallers |-> "none"]
    /\ provUsed = [g \in 1 .. NumCallers |-> 0]
    /\ apiRes = NoRequest
    /\ wpCtxDone = FALSE
    /\ wpStarted = FALSE
    /\ wpWorkerPc = [w \in 0 .. (NumWorkers - 1) |-> "new"]
    /\ wpMsgChan = [w \in 0 .. (NumWorkers - 1) |-> <<>>]
    /\ wpCur = [w \in 0 .. (NumWorkers - 1) |-> NoWork]
    /\ wpQuit = [w \in 0 .. (NumWorkers - 1) |-> FALSE]
    /\ wpResultCh = <<>>
    /\ wpResultClosed = FALSE
    /\ wpCollectorPc = "new"
    /\ wpReporterPc = "new"
    /\ wpStats = NoStats
    /\ wpReported = NoStats
    /\ wpWg = 0
    /\ wpShutdownPc = "none"
    /\ wpDispatched = <<>>
    /\ wpApplied = <<>>
    /\ wpPanic = FALSE
    /\ stStats = NoStats
    /\ stWriter = 0
    /\ stReaders = 0
    /\ stRecPc = [g \in 1..NumRecorders |-> "idle"]
    /\ stRecArg = [g \in 1..NumRecorders |-> [success |-> FALSE, duration |-> 0]]
    /\ stSnapPc = [g \in 1..NumSnapshotters |-> "idle"]
    /\ stSnap = [g \in 1..NumSnapshotters |-> [processed |-> 0, succeeded |-> 0, failed |-> 0, avgTime |-> 0]]
    /\ stDone = 0
    /\ rfDb = <<>>
    /\ rfLoadPc = "idle"
    /\ rfSnapshot = [x \in {} |-> FALSE]
    /\ rfCommits = 0
    /\ dpPool = "nil"
    /\ dpPinged = FALSE
    /\ dpRes = [op |-> "none", err |-> "nil"]
    /\ dpCalls = 0

\* ------------------------------------------------------------ producers
\* api.checkboxCheck / checkboxUncheck -> queueservice.PublishCheckboxAction
PublishCheckboxAction(nbr, action, user) ==
    /\ mpc = "consume"
    /\ Len(msgs) < MaxMsgs
    /\ msgs' = Append(msgs, [nbr |-> nbr, action |-> action, user |-> user, form |-> "ok"])
    /\ status' = Append(status, "visible")
    /\ UNCHANGED <<pool, checkbox_t, details_t, now, cancelled, mpc, batch, units, c,
                   i, processed, failed, result, lastResult, batchVars, sideVars>>

\* A message whose body is not a CheckboxActionMessage, or whose uuids do not
\* parse, put on the queue by some other producer.
PublishMalformed(nbr, form) ==
    /\ mpc = "consume"
    /\ Len(msgs) < MaxMsgs
    /\ form # "ok"
    /\ msgs' = Append(msgs, [nbr |-> nbr, action |-> "check", user |-> 1, form |-> form])
    /\ status' = Append(status, "visible")
    /\ UNCHANGED <<pool, checkbox_t, details_t, now, cancelled, mpc, batch, units, c,
                   i, processed, failed, result, lastResult, batchVars, sideVars>>

\* The lease of a received, undeleted message runs out.
VisibilityTimeout(m) ==
    /\ mpc = "consume"
    /\ status[m] = "inflight"
    /\ status' = [status EXCEPT ![m] = "visible"]
    /\ UNCHANGED <<msgs, pool, checkbox_t, details_t, now, cancelled, mpc, batch, units,
                   c, i, processed, failed, result, lastResult, batchVars, sideVars>>

\* dbservice.InitDbPool -> InitializePool (cmd/api-server/main.go:77 calls it;
\* cmd/backend/main.go does not).
InitDbPool ==
    /\ pool = "nil"
    /\ pool' = "open"
    /\ UNCHANGED <<msgs, status, checkbox_t, details_t, now, cancelled, mpc, batch, units,
                   c, i, processed, failed, result, lastResult, batchVars, sideVars>>

\* SIGINT / SIGTERM: the signal goroutine calls cancel().
Cancel ==
    /\ ~cancelled
    /\ cancelled' = TRUE
    /\ UNCHANGED <<msgs, status, pool, checkbox_t, details_t, now, mpc, batch, units,
                   c, i, processed, failed, result, lastResult, batchVars, sideVars>>

\* ------------------------------------------------------------ main loop
\* The top of the loop without its ctx.Done() case.
MainSelect_IgnoresDone ==
    /\ mpc = "select"
    /\ mpc' = "consume"
    /\ UNCHANGED <<msgs, status, pool, checkbox_t, details_t, now, cancelled, batch, units,
                   c, i, processed, failed, result, lastResult, batchVars, sideVars>>

\* main.go:36-40  select { case <-ctx.Done(): return; default: ... }
MainSelect ==
    /\ mpc = "select"
    /\ mpc' = IF cancelled THEN "exit" ELSE "consume"
    /\ UNCHANGED <<msgs, status, pool, checkbox_t, details_t, now, cancelled, batch, units,
                   c, i, processed, failed, result, lastResult, batchVars, sideVars>>

\* main.go:58-65  the context-aware sleep
MainSleepTimer ==
    /\ mpc = "sleep"
    /\ mpc' = "select"
    /\ lastResult' = NoResult
    /\ UNCHANGED <<msgs, status, pool, checkbox_t, details_t, now, cancelled, batch, units,
                   c, i, processed, failed, result, batchVars, sideVars>>

MainSleepCancelled ==
    /\ mpc = "sleep"
    /\ cancelled
    /\ mpc' = "exit"
    /\ lastResult' = NoResult
    /\ UNCHANGED <<msgs, status, pool, checkbox_t, details_t, now, cancelled, batch, units,
                   c, i, processed, failed, result, batchVars, sideVars>>

\* --------------------------------------- ConsumeCheckboxActionQueue, polling
\* The transport error takes the process down.
PullFails_Crash ==
    /\ mpc = "consume"
    /\ lastResult' = ConsumerResult(ResultFailure, 0)
    /\ mpc' = "exit"
    /\ IdleCycle
    /\ UNCHANGED <<msgs, status, pool, checkbox_t, details_t, now, cancelled, batchVars, sideVars>>

\* backendworker.go:18-25  the receive fails (a cancelled context fails it too)
PullFails ==
    /\ mpc = "consume"
    /\ lastResult' = ConsumerResult(ResultFailure, 0)
    /\ mpc' = "sleep"
    /\ IdleCycle
    /\ UNCHANGED <<msgs, status, pool, checkbox_t, details_t, now, cancelled, batchVars, sideVars>>

\* An empty receive reported as a failed cycle.
PullCheckboxActionMessages_EmptyIsError(S) ==
    /\ mpc = "consume"
    /\ ~cancelled
    /\ Deliverable(S)
    /\ status' = [m \in MsgIds |-> IF m \in S THEN "inflight" ELSE status[m]]
    /\ IF S = {} \/ TooManyMessages(Cardinality(S))
       THEN /\ lastResult' = ConsumerResult(ResultFailure, 0)
            /\ mpc' = "sleep"
            /\ IdleCycle
       ELSE /\ batch' = SortedSeq(S)
            /\ units' = [k \in 1 .. Cardinality(S) |-> NewUnit(SortedSeq(S)[k])]
            /\ c' = <<>>
            /\ i' = 0
            /\ processed' = 0
            /\ failed' = 0
            /\ result' = ResultSuccess
            /\ mpc' = "collect"
            /\ UNCHANGED lastResult
    /\ UNCHANGED <<msgs, pool, checkbox_t, details_t, now, cancelled, batchVars, sideVars>>

\* backendworker.go:18-66  receive, the two early returns, and the dispatch of
\* one goroutine per message
PullCheckboxActionMessages(S) ==
    /\ mpc = "consume"
    /\ ~cancelled
    /\ Deliverable(S)
    /\ status' = [m \in MsgIds |-> IF m \in S THEN "inflight" ELSE status[m]]
    /\ IF S = {}
       THEN /\ lastResult' = ConsumerResult(ResultSuccess, 0)
            /\ mpc' = "sleep"
            /\ IdleCycle
       ELSE IF TooManyMessages(Cardinality(S))
       THEN /\ lastResult' = ConsumerResult(ResultFailure, 0)
            /\ mpc' = "sleep"
            /\ IdleCycle
       ELSE /\ batch' = SortedSeq(S)
            /\ units' = [k \in 1 .. Cardinality(S) |-> NewUnit(SortedSeq(S)[k])]
            /\ c' = <<>>
            /\ i' = 0
            /\ processed' = 0
            /\ failed' = 0
            /\ result' = ResultSuccess
            /\ mpc' = "collect"
            /\ UNCHANGED lastResult
    /\ UNCHANGED <<msgs, pool, checkbox_t, details_t, now, cancelled, batchVars, sideVars>>

\* ------------------------------------- processCheckboxActionMessage (a unit)
Payload(k) == msgs[units[k].msg]

\* backendworker.go:96-117  UnmarshalBody, uuid.Parse(UserUuid), uuid.Parse(RequestUuid)
DecodeError(form) ==
    CASE form = "badjson" -> "unmarshal"
      [] form = "baduser" -> "useruuid"
      [] form = "badreq"  -> "requuid"
      [] OTHER            -> "none"

\* c <- r, then return: the unit's last step.  A transaction still open is
\* left behind (nothing of it is durable).
Report(k, r, e) ==
    /\ units' = [units EXCEPT ![k] = [@ EXCEPT !.pc = "done", !.err = e, !.res = r,
                                              !.sent = @ + 1, !.tx = NoTx]]
    /\ c' = Append(c, r)

\* The early returns of the decoding without their c <- Failure.
UnmarshalAndParse_NoSend(k) ==
    /\ units[k].pc = "decode"
    /\ IF DecodeError(Payload(k).form) # "none"
       THEN units' = [units EXCEPT ![k] = [@ EXCEPT !.pc = "done",
                                                   !.err = DecodeError(Payload(k).form)]]
       ELSE units' = [units EXCEPT ![k].pc = "begin"]
    /\ UNCHANGED <<msgs, status, pool, checkbox_t, details_t, now, cancelled, mpc, batch,
                   c, i, processed, failed, result, lastResult, batchVars, sideVars>>

UnmarshalAndParse(k) ==
    /\ units[k].pc = "decode"
    /\ IF DecodeError(Payload(k).form) # "none"
       THEN Report(k, ResultFailure, DecodeError(Payload(k).form))
       ELSE /\ units' = [units EXCEPT ![k].pc = "begin"]
            /\ UNCHANGED c
    /\ UNCHANGED <<msgs, status, pool, checkbox_t, details_t, now, cancelled, mpc, batch,
                   i, processed, failed, result, lastResult, batchVars, sideVars>>

\* postgreservice.go:148-151  BeginTx with no pool
BeginTxNotInitialized(k) ==
    /\ units[k].pc = "begin"
    /\ pool = "nil"
    /\ Report(k, ResultFailure, "notinit")
    /\ UNCHANGED <<msgs, status, pool, checkbox_t, details_t, now, cancelled, mpc, batch,
                   i, processed, failed, result, lastResult, batchVars, sideVars>>

\* postgreservice.go:155-164  pool.Begin succeeds
BeginTx(k) ==
    /\ units[k].pc = "begin"
    /\ pool = "open"
    /\ ~cancelled
    /\ units' = [units EXCEPT ![k] = [@ EXCEPT !.pc = "exec1", !.tx = [NoTx EXCEPT !.open = TRUE]]]
    /\ UNCHANGED <<msgs, status, pool, checkbox_t, details_t, now, cancelled, mpc, batch, c,
                   i, processed, failed, result, lastResult, batchVars, sideVars>>

\* The first UPDATE run on the pool instead of inside the transaction: it is
\* durable at once.
ExecCheckboxT_Autocommit(k) ==
    /\ units[k].pc = "exec1"
    /\ ~cancelled
    /\ units' = [units EXCEPT ![k] = [@ EXCEPT !.pc = "exec2",
                     !.tx.state = (Payload(k).action = CheckboxActionChecked)]]
    /\ checkbox_t' = IF Payload(k).nbr \in Rows
                     THEN [checkbox_t EXCEPT ![Payload(k).nbr] =
                              (Payload(k).action = CheckboxActionChecked)]
                     ELSE checkbox_t
    /\ UNCHANGED <<msgs, status, pool, details_t, now, cancelled, mpc, batch, c,
                   i, processed, failed, result, lastResult, batchVars, sideVars>>

\* The decoding that takes everything but "uncheck" as checked.
ExecCheckboxT_CheckedUnlessUncheck(k) ==
    /\ units[k].pc = "exec1"
    /\ ~cancelled
    /\ units' = [units EXCEPT ![k] = [@ EXCEPT !.pc = "exec2",
                     !.tx.state = (Payload(k).action # "uncheck")]]
    /\ UNCHANGED <<msgs, status, pool, checkbox_t, details_t, now, cancelled, mpc, batch, c,
                   i, processed, failed, result, lastResult, batchVars, sideVars>>

\* backendworker.go:123  checked is payload.Action == CheckboxActionChecked;
\* part_003:142-145  UPDATE MCB.CHECKBOX_T inside the transaction
ExecCheckboxT(k) ==
    /\ units[k].pc = "exec1"
    /\ ~cancelled
    /\ units' = [units EXCEPT ![k] = [@ EXCEPT !.pc = "exec2",
                     !.tx.state = (Payload(k).action = CheckboxActionChecked)]]
    /\ UNCHANGED <<msgs, status, pool, checkbox_t, details_t, now, cancelled, mpc, batch, c,
                   i, processed, failed, result, lastResult, batchVars, sideVars>>

\* part_003:151-154  UPDATE MCB.CHECKBOX_DETAILS_T inside the transaction;
\* LAST_UPDATED_DATE is time.Now(), read here.
ExecCheckboxDetailsT(k) ==
    /\ units[k].pc = "exec2"
    /\ ~cancelled
    /\ \E t \in now .. MaxClock :
          /\ now' = t
          /\ units' = [units EXCEPT ![k] = [@ EXCEPT !.pc = "commit",
                           !.tx.details = [by  |-> Payload(k).user,
                                           req |-> RequestUuid(units[k].msg),
                                           at  |-> t]]]
    /\ UNCHANGED <<msgs, status, pool, checkbox_t, details_t, cancelled, mpc, batch, c,
                   i, processed, failed, result, lastResult, batchVars, sideVars>>

\* part_003:160-168  CommitTx succeeds: both writes become durable together.
\* A WHERE CHECKBOX_NBR = n that matches no row updates nothing.
CommitTx(k) ==
    /\ units[k].pc = "commit"
    /\ ~cancelled
    /\ LET n == Payload(k).nbr
       IN  /\ checkbox_t' = IF n \in Rows THEN [checkbox_t EXCEPT ![n] = units[k].tx.state]
                                          ELSE checkbox_t
           /\ details_t' = IF n \in Rows THEN [details_t EXCEPT ![n] = units[k].tx.details]
                                         ELSE details_t
    /\ units' = [units EXCEPT ![k] = [@ EXCEPT !.pc = "delete", !.tx = NoTx,
                                              !.committed = TRUE]]
    /\ UNCHANGED <<msgs, status, pool, now, cancelled, mpc, batch, c,
                   i, processed, failed, result, lastResult, batchVars, sideVars>>

\* The error of UpdateCheckbox dropped: the unit goes on to DeleteMessage.
UpdateCheckboxFails_ErrorIgnored(k) ==
    /\ \/ units[k].pc = "begin" /\ pool = "open"
       \/ units[k].pc \in {"exec1", "exec2", "commit"}
    /\ units' = [units EXCEPT ![k] = [@ EXCEPT !.pc = "delete", !.tx = NoTx]]
    /\ UNCHANGED <<msgs, status, pool, checkbox_t, details_t, now, cancelled, mpc, batch,
                   c, i, processed, failed, result, lastResult, batchVars, sideVars>>

\* part_003:124-128, 146-149, 155-158, 161-165 with the deferred RollbackTx of
\* 130-140: pool.Begin, an ExecTx or the commit fails; the transaction is
\* rolled back and UpdateCheckbox returns the error (backendworker.go:126-130).
UpdateCheckboxFails(k) ==
    /\ \/ units[k].pc = "begin" /\ pool = "open"
       \/ units[k].pc \in {"exec1", "exec2", "commit"}
    /\ Report(k, ResultFailure, "update")
    /\ UNCHANGED <<msgs, status, pool, checkbox_t, details_t, now, cancelled, mpc, batch,
                   i, processed, failed, result, lastResult, batchVars, sideVars>>

\* backendworker.go:132-141  DeleteMessage succeeds, then c <- Success
DeleteMessage(k) ==
    /\ units[k].pc = "delete"
    /\ ~cancelled
    /\ status' = [status EXCEPT ![units[k].msg] = "deleted"]
    /\ Report(k, ResultSuccess, "none")
    /\ UNCHANGED <<msgs, pool, checkbox_t, details_t, now, cancelled, mpc, batch,
                   i, processed, failed, result, lastResult, batchVars, sideVars>>

\* The failed delete ends the unit without a result on c.
DeleteMessageFails_NoSend(k) ==
    /\ units[k].pc = "delete"
    /\ units' = [units EXCEPT ![k] = [@ EXCEPT !.pc = "done", !.err = "delete"]]
    /\ UNCHANGED <<msgs, status, pool, checkbox_t, details_t, now, cancelled, mpc, batch,
                   c, i, processed, failed, result, lastResult, batchVars, sideVars>>

\* backendworker.go:134-138  DeleteMessage fails (awsqueueservice.go:95-118:
\* no client, or the SQS call returns an error): the message is not deleted
DeleteMessageFails(k) ==
    /\ units[k].pc = "delete"
    /\ Report(k, ResultFailure, "delete")
    /\ UNCHANGED <<msgs, status, pool, checkbox_t, details_t, now, cancelled, mpc, batch,
                   i, processed, failed, result, lastResult, batchVars, sideVars>>

\* The deferred function recovers the panic and sends nothing.
RecoverPanic_NoSend(k) ==
    /\ units[k].pc # "done"
    /\ units' = [units EXCEPT ![k] = [@ EXCEPT !.pc = "done", !.err = "panic", !.tx = NoTx]]
    /\ UNCHANGED <<msgs, status, pool, checkbox_t, details_t, now, cancelled, mpc, batch,
                   c, i, processed, failed, result, lastResult, batchVars, sideVars>>

\* backendworker.go:58-63  a panic anywhere in the unit is recovered by the
\* deferred function, which sends one Failure.
RecoverPanic(k) ==
    /\ units[k].pc # "done"
    /\ Report(k, ResultFailure, "panic")
    /\ UNCHANGED <<msgs, status, pool, checkbox_t, details_t, now, cancelled, mpc, batch,
                   i, processed, failed, result, lastResult, batchVars, sideVars>>

\* --------------------------------- ConsumeCheckboxActionQueue, collecting
\* The collecting loop counting every result as processed.
CollectResult_CountsAll ==
    /\ mpc = "collect"
    /\ i < Len(batch)
    /\ c # <<>>
    /\ i' = i + 1
    /\ c' = Tail(c)
    /\ processed' = processed + 1
    /\ IF Head(c) = ResultSuccess
       THEN UNCHANGED <<failed, result>>
       ELSE /\ failed' = failed + 1
            /\ result' = ResultFailure
    /\ UNCHANGED <<msgs, status, pool, checkbox_t, details_t, now, cancelled, mpc, batch,
                   units, lastResult, batchVars, sideVars>>

\* backendworker.go:69-77  one pass of the collecting loop
CollectResult ==
    /\ mpc = "collect"
    /\ i < Len(batch)
    /\ c # <<>>
    /\ i' = i + 1
    /\ c' = Tail(c)
    /\ IF Head(c) = ResultSuccess
       THEN /\ processed' = processed + 1
            /\ UNCHANGED <<failed, result>>
       ELSE /\ failed' = failed + 1
            /\ result' = ResultFailure
            /\ UNCHANGED processed
    /\ UNCHANGED <<msgs, status, pool, checkbox_t, details_t, now, cancelled, mpc, batch,
                   units, lastResult, batchVars, sideVars>>

\* backendworker.go:79-90  the loop is over: log, close(c), return
ConsumeReturn ==
    /\ mpc = "collect"
    /\ i = Len(batch)
    /\ lastResult' = ConsumerResult(result, processed)
    /\ mpc' = "sleep"
    /\ IdleCycle
    /\ UNCHANGED <<msgs, status, pool, checkbox_t, details_t, now, cancelled, batchVars, sideVars>>

UnitIds == DOMAIN units

Next ==
    \/ \E nbr \in CheckboxNbrs, a \in Actions, u \in Users : PublishCheckboxAction(nbr, a, u)
    \/ \E f \in Forms : PublishMalformed(0, f)
    \/ \E m \in MsgIds : VisibilityTimeout(m)
    \/ InitDbPool
    \/ Cancel
    \/ MainSelect
    \/ MainSleepTimer
    \/ MainSleepCancelled
    \/ PullFails
    \/ \E S \in SUBSET MsgIds : PullCheckboxActionMessages(S)
    \/ \E k \in UnitIds : UnmarshalAndParse(k)
    \/ \E k \in UnitIds : BeginTxNotInitialized(k)
    \/ \E k \in UnitIds : BeginTx(k)
    \/ \E k \in UnitIds : ExecCheckboxT(k)
    \/ \E k \in UnitIds : ExecCheckboxDetailsT(k)
    \/ \E k \in UnitIds : CommitTx(k)
    \/ \E k \in UnitIds : UpdateCheckboxFails(k)
    \/ \E k \in UnitIds : DeleteMessage(k)
    \/ \E k \in UnitIds : DeleteMessageFails(k)
    \/ \E k \in UnitIds : RecoverPanic(k)
    \/ CollectResult
    \/ ConsumeReturn

Spec == Init /\ [][Next]_vars

\* An action string that is neither of the two the API publishes.
OtherAction == "toggle"

\* A well-formed message with that action, put on the queue by some other
\* producer (part_004:22-23: Action is a string).
PublishOtherAction(nbr, user) ==
    /\ mpc = "consume"
    /\ Len(msgs) < MaxMsgs
    /\ msgs' = Append(msgs, [nbr |-> nbr, action |-> OtherAction, user |-> user, form |-> "ok"])
    /\ status' = Append(status, "visible")
    /\ UNCHANGED <<pool, checkbox_t, details_t, now, cancelled, mpc, batch, units, c,
                   i, processed, failed, result, lastResult, batchVars, sideVars>>

NextActions ==
    \/ Next
    \/ \E nbr \in CheckboxNbrs, u \in Users : PublishOtherAction(nbr, u)

SpecActions == Init /\ [][NextActions]_vars

\* ------------------------------------------------------------ fairness
\* The specification for liveness: the most favourable environment.  No
\* signal arrives, the receive hands out everything it may, and no receive,
\* database call or delete fails; what remains is the code's own behaviour.

\* The receive returns every message that is deliverable.
ReceiveAll ==
    \E S \in SUBSET MsgIds :
        /\ \A T \in SUBSET MsgIds : Deliverable(T) => T \subseteq S
        /\ PullCheckboxActionMessages(S)

\* The poll loop of cmd/backend/main.go and the collecting loop it runs.
MainLoopStep ==
    \/ MainSelect
    \/ MainSleepTimer
    \/ ReceiveAll
    \/ CollectResult
    \/ ConsumeReturn

\* A step of one of the goroutines of the cycle.
UnitStep ==
    \E k \in UnitIds :
        \/ UnmarshalAndParse(k)
        \/ BeginTxNotInitialized(k)
        \/ BeginTx(k)
        \/ ExecCheckboxT(k)
        \/ ExecCheckboxDetailsT(k)
        \/ CommitTx(k)
        \/ DeleteMessage(k)

NextFair ==
    \/ \E nbr \in CheckboxNbrs, a \in Actions, u \in Users : PublishCheckboxAction(nbr, a, u)
    \/ \E f \in Forms : PublishMalformed(0, f)
    \/ \E m \in MsgIds : VisibilityTimeout(m)
    \/ InitDbPool
    \/ MainLoopStep
    \/ UnitStep

\* The main goroutine and the units keep running; a lease that keeps being
\* held keeps running out.  Nothing obliges a producer to publish or anyone
\* to initialise the pool: cmd/backend/main.go has no call of InitDbPool.
Fairness ==
    /\ WF_vars(MainLoopStep)
    /\ WF_vars(UnitStep)
    /\ \A m \in 1 .. MaxMsgs : SF_vars(m \in MsgIds /\ VisibilityTimeout(m))

FairSpec == Init /\ [][NextFair]_vars /\ Fairness

\* --------------------------------------------------- the loop keeps running
\* Every step the main goroutine can take, failures included.
MainStep ==
    \/ MainSelect
    \/ MainSleepTimer
    \/ MainSleepCancelled
    \/ PullFails
    \/ \E S \in SUBSET MsgIds : PullCheckboxActionMessages(S)
    \/ CollectResult
    \/ ConsumeReturn

\* Every step a goroutine of the cycle can take, failures and panics included.
AnyUnitStep ==
    \E k \in UnitIds :
        \/ UnmarshalAndParse(k)
        \/ BeginTxNotInitialized(k)
        \/ BeginTx(k)
        \/ ExecCheckboxT(k)
        \/ ExecCheckboxDetailsT(k)
        \/ CommitTx(k)
        \/ UpdateCheckboxFails(k)
        \/ DeleteMessage(k)
        \/ DeleteMessageFails(k)
        \/ RecoverPanic(k)

\* The whole model with a scheduler that keeps running the main goroutine and
\* the units: every call returns (with or without an error) and the timer
\* of the backoff sleep fires.
LiveSpec == Init /\ [][Next]_vars /\ WF_vars(MainStep) /\ WF_vars(AnyUnitStep)

\* ------------------------------------------------------------ batch sizes
\* ConsumeCheckboxActionQueue by the counts alone, for batches up to the size
\* at which the guard of backendworker.go:38 matters.  A unit is one step
\* here: it runs to its send and the collecting loop takes its result.
BatchIdle ==
    /\ bDispatched' = 0
    /\ bI' = 0
    /\ bProcessed' = 0
    /\ bFailed' = 0
    /\ bCalled' = FALSE

\* backendworker.go:18-25
BatchPullFails ==
    /\ bpc = "idle"
    /\ bReceived' = 0
    /\ bResult' = ConsumerResult(ResultFailure, 0)
    /\ bpc' = "returned"
    /\ BatchIdle
    /\ UNCHANGED <<mainVars, sideVars>>

\* backendworker.go:27-66  the receive returns n messages
BatchReceive(n) ==
    /\ bpc = "idle"
    /\ bReceived' = n
    /\ IF n = 0
       THEN /\ bResult' = ConsumerResult(ResultSuccess, 0)
            /\ bpc' = "returned"
            /\ BatchIdle
       ELSE IF TooManyMessages(n)
       THEN /\ bResult' = ConsumerResult(ResultFailure, 0)
            /\ bpc' = "returned"
            /\ BatchIdle
       ELSE /\ bDispatched' = n
            /\ bI' = 0
            /\ bProcessed' = 0
            /\ bFailed' = 0
            /\ bCalled' = FALSE
            /\ bpc' = "collect"
            /\ UNCHANGED bResult
    /\ UNCHANGED <<mainVars, sideVars>>

\* backendworker.go:57-77, 94-142  one unit ends with result r, having called
\* UpdateCheckbox (called) or failed before it, and its result is collected.
BatchUnitDone(r, called) ==
    /\ bpc = "collect"
    /\ bI < bDispatched
    /\ r = ResultSuccess => called
    /\ bI' = bI + 1
    /\ bCalled' = (bCalled \/ called)
    /\ IF r = ResultSuccess
       THEN bProcessed' = bProcessed + 1 /\ UNCHANGED bFailed
       ELSE bFailed' = bFailed + 1 /\ UNCHANGED bProcessed
    /\ UNCHANGED <<bpc, bReceived, bDispatched, bResult, mainVars, sideVars>>

\* backendworker.go:79-90
BatchReturn ==
    /\ bpc = "collect"
    /\ bI = bDispatched
    /\ bResult' = ConsumerResult(IF bFailed > 0 THEN ResultFailure ELSE ResultSuccess,
                                 bProcessed)
    /\ bpc' = "returned"
    /\ UNCHANGED <<bReceived, bDispatched, bI, bProcessed, bFailed, bCalled, mainVars, sideVars>>

\* main.go:35-66  the next pass of the poll loop
BatchNextCycle ==
    /\ bpc = "returned"
    /\ bpc' = "idle"
    /\ bReceived' = 0
    /\ bResult' = NoResult
    /\ BatchIdle
    /\ UNCHANGED <<mainVars, sideVars>>

NextBatch ==
    \/ BatchPullFails
    \/ \E n \in 0 .. MaxReceived : BatchReceive(n)
    \/ \E r \in {ResultSuccess, ResultFailure}, called \in BOOLEAN : BatchUnitDone(r, called)
    \/ BatchReturn
    \/ BatchNextCycle

SpecBatch == Init /\ [][NextBatch]_vars

\* ------------------------------------------------------------ memory store
\* memorystore (part_005) and dbservice.GetFullCheckboxStore (part_003), one
\* call per step, callers one at a time.
notCache == <<mainVars, batchVars, backoffVars, publishVars, providerVars, apiVars, poolVars, statsVars,
               refreshVars,
               dbPoolVars>>

\* The indices callers pass: one below, the cells, and two above.
CacheIndices == (0 - 1) .. (StoreSize + 1)

\* The results the full-store query can have: from no row to one row too many.
QueryResults == UNION {[1 .. q -> BOOLEAN] : q \in 0 .. (StoreSize + 1)}

\* part_003:235  if i != 999999, with the store's 1,000,000 scaled to StoreSize
ExpectedRowCount == StoreSize - 1

\* part_005:67-69
checkboxNbrValid(checkboxNbr) == checkboxNbr >= 0 /\ checkboxNbr < storeLen

\* Init without the guard of part_005:18-20: a second call allocates again.
CacheInit_Reallocates ==
    /\ store' = MakeStore(StoreSize)
    /\ storeLen' = StoreSize
    /\ initialized' = TRUE
    /\ cacheRes' = CacheCall("Init", 0, FALSE, IF initialized THEN "panic" ELSE "ok", FALSE)
    /\ UNCHANGED notCache

\* part_005:17-27  Init panics when called again and allocates otherwise
CacheInit ==
    /\ IF initialized
       THEN /\ cacheRes' = CacheCall("Init", 0, FALSE, "panic", FALSE)
            /\ UNCHANGED <<store, storeLen, initialized>>
       ELSE /\ store' = MakeStore(StoreSize)
            /\ storeLen' = StoreSize
            /\ initialized' = TRUE
            /\ cacheRes' = CacheCall("Init", 0, FALSE, "ok", FALSE)
    /\ UNCHANGED notCache

\* part_005:29-39
GetCheckboxStatus(checkboxNbr) ==
    /\ cacheRes' =
          IF ~checkboxNbrValid(checkboxNbr)
          THEN CacheCall("Get", checkboxNbr, FALSE, "InternalError", FALSE)
          ELSE IF checkboxNbr \notin DOMAIN store
          THEN CacheCall("Get", checkboxNbr, FALSE, "panic", FALSE)
          ELSE CacheCall("Get", checkboxNbr, FALSE, "ok", store[checkboxNbr])
    /\ UNCHANGED <<store, storeLen, initialized, notCache>>

\* DoCheck without the assignment of part_005:47.
DoCheck_NoWrite(checkboxNbr, checked) ==
    /\ cacheRes' =
          IF ~checkboxNbrValid(checkboxNbr)
          THEN CacheCall("DoCheck", checkboxNbr, checked, "InternalError", FALSE)
          ELSE CacheCall("DoCheck", checkboxNbr, checked, "ok", FALSE)
    /\ UNCHANGED <<store, storeLen, initialized, notCache>>

\* part_005:41-51
DoCheck(checkboxNbr, checked) ==
    /\ IF ~checkboxNbrValid(checkboxNbr)
       THEN /\ cacheRes' = CacheCall("DoCheck", checkboxNbr, checked, "InternalError", FALSE)
            /\ UNCHANGED store
       ELSE IF checkboxNbr \notin DOMAIN store
       THEN /\ cacheRes' = CacheCall("DoCheck", checkboxNbr, checked, "panic", FALSE)
            /\ UNCHANGED store
       ELSE /\ store' = [store EXCEPT ![checkboxNbr] = checked]
            /\ cacheRes' = CacheCall("DoCheck", checkboxNbr, checked, "ok", FALSE)
    /\ UNCHANGED <<storeLen, initialized, notCache>>

\* The array allocated with one cell per row read.
GetFullCheckboxStore_SizedByRows(rows) ==
    IF Len(rows) # ExpectedRowCount
    THEN [out |-> "DatabaseError", store |-> NilStore]
    ELSE [out |-> "ok", store |-> [x \in 0 .. (Len(rows) - 1) |-> rows[x + 1]]]

\* part_003:210-247  the rows are copied into a fresh array of StoreSize
\* cells; a row beyond the array is an index out of range (panic); then the
\* count is compared.
GetFullCheckboxStore(rows) ==
    IF Len(rows) > StoreSize
    THEN [out |-> "panic", store |-> NilStore]
    ELSE IF Len(rows) # ExpectedRowCount
    THEN [out |-> "DatabaseError", store |-> NilStore]
    ELSE [out |-> "ok",
          store |-> [x \in 0 .. (StoreSize - 1) |->
                        IF x < Len(rows) THEN rows[x + 1] ELSE FALSE]]

\* part_005:53-65
LoadCheckboxesFromStore(rows) ==
    /\ cacheRes' = CacheCall("Load", Len(rows), FALSE, GetFullCheckboxStore(rows).out, FALSE)
    /\ store' = IF GetFullCheckboxStore(rows).out = "ok"
                THEN GetFullCheckboxStore(rows).store
                ELSE store
    /\ UNCHANGED <<storeLen, initialized, notCache>>

\* part_003:213-217, 241-244  the query or the iteration fails
LoadCheckboxesQueryFails ==
    /\ cacheRes' = CacheCall("LoadQuery", 0, FALSE, "DatabaseError", FALSE)
    /\ UNCHANGED <<store, storeLen, initialized, notCache>>

NextCache ==
    \/ CacheInit
    \/ \E n \in CacheIndices : GetCheckboxStatus(n)
    \/ \E n \in CacheIndices, v \in BOOLEAN : DoCheck(n, v)
    \/ \E rows \in QueryResults : LoadCheckboxesFromStore(rows)
    \/ LoadCheckboxesQueryFails

SpecCache == Init /\ [][NextCache]_vars

\* ------------------------------------------------------------ backoff
\* main.go:41-55: the runtime of the cycle is measured, rounded to whole
\* seconds, and the sleep computed from it.  Durations are in ticks.
notBackoff == <<mainVars, batchVars, cacheVars, publishVars, providerVars, apiVars, poolVars, statsVars,
               refreshVars,
               dbPoolVars>>

\* main.go:44  int(math.Round(endtime.Sub(starttime).Seconds())): the nearest
\* whole second, halves away from zero (runtimes are not negative).
runtimeSeconds(runtime) == (2 * runtime + TicksPerSecond) \div (2 * TicksPerSecond)

\* The sleep without its lower limit.
SleepTime_NoMinimum(runtime) ==
    runtimeSeconds(runtime) * TicksPerSecond * sleepTimeMultiplier

\* main.go:52-55
SleepTime(runtime) ==
    IF runtimeSeconds(runtime) * TicksPerSecond * sleepTimeMultiplier
          < consumeCheckboxActionMinSleepTimeDuration * TicksPerSecond
    THEN consumeCheckboxActionMinSleepTimeDuration * TicksPerSecond
    ELSE runtimeSeconds(runtime) * TicksPerSecond * sleepTimeMultiplier

\* How a cycle can end: messages processed, nothing received, or a failure.
CycleKinds == {"processed", "empty", "failed"}

\* main.go:41-55  a cycle of the given kind took runtime ticks
MeasureAndSleep(kind, runtime) ==
    /\ cycleKind' = kind
    /\ cycleRuntime' = runtime
    /\ sleeptime' = SleepTime(runtime)
    /\ UNCHANGED notBackoff

NextBackoff == \E kind \in CycleKinds, runtime \in 0 .. MaxRuntime : MeasureAndSleep(kind, runtime)

SpecBackoff == Init /\ [][NextBackoff]_vars

\* ------------------------------------------------------------ publishing
\* queueservice.PublishCheckboxAction (part_004:87-128) and the provider's
\* PublishCheckboxAction (awsqueueservice.go:120-156), one call per step.  A
\* string is the sequence of its characters.  The topic is an SNS FIFO topic:
\* it drops a message whose deduplication id it still remembers, and it
\* forgets an id when the id's deduplication interval is over.
notPublish == <<mainVars, batchVars, cacheVars, backoffVars, providerVars, apiVars, poolVars, statsVars,
               refreshVars,
               dbPoolVars>>

\* The checkbox numbers callers publish: a negative one, one digit, two digits.
PubCheckboxNbrs == {0 - 1, 0, 1, 10}

RequestUuids == 1 .. NumRequests

\* queueservice.CheckboxActionPayload (part_004:22-30); the request time, ip
\* and server name are carried along unread and left out.
Payloads ==
    [Action : Actions, CheckboxNbr : PubCheckboxNbrs, UserUuid : Users, RequestUuid : RequestUuids]

DigitChars == <<"0", "1", "2", "3", "4", "5", "6", "7", "8", "9">>

RECURSIVE Digits(_)
Digits(n) ==
    IF n < 10 THEN <<DigitChars[n + 1]>>
    ELSE Digits(n \div 10) \o <<DigitChars[(n % 10) + 1]>>

\* the verb %d of fmt.Sprintf for an int
FormatInt(n) == IF n < 0 THEN <<"-">> \o Digits(0 - n) ELSE Digits(n)

\* The same group for every checkbox.
FormatGroupId_NoNumber(checkboxNbr) == <<"c", "h", "e", "c", "k", "b", "o", "x", "-">>

\* part_004:105  fmt.Sprintf("checkbox-%d", payload.CheckboxNbr)
FormatGroupId(checkboxNbr) ==
    <<"c", "h", "e", "c", "k", "b", "o", "x", "-">> \o FormatInt(checkboxNbr)

\* part_004:102-109  the message with its header
CheckboxActionMessage(payload) ==
    [Header |-> [PayloadSchemaVersion |-> "1.0",
                 GroupId |-> FormatGroupId(payload.CheckboxNbr),
                 DeduplicationId |-> payload.RequestUuid],
     Payload |-> payload]

\* awsqueueservice.go:129  json.Marshal(message): the fields under their json
\* tags (part_004:16-35), the int as the text of a JSON number
MarshalMessage(message) ==
    [header |-> [payload_schema_version |-> message.Header.PayloadSchemaVersion,
                 group_id |-> message.Header.GroupId,
                 deduplication_id |-> message.Header.DeduplicationId],
     payload |-> [action |-> message.Payload.Action,
                  checkbox_nbr |-> FormatInt(message.Payload.CheckboxNbr),
                  user_uuid |-> message.Payload.UserUuid,
                  request_uuid |-> message.Payload.RequestUuid]]

\* awsqueueservice.go:135-140  sns.PublishInput
PublishInput(message) ==
    [Message |-> MarshalMessage(message),
     MessageGroupId |-> message.Header.GroupId,
     MessageDeduplicationId |-> message.Header.DeduplicationId]

\* part_004:37-41  PublishMessageResult; 0 stands for the empty string and
\* for the zero time
PublishMessageResult(messageId, sequenceNumber, publishTime) ==
    [MessageId |-> messageId, SequenceNumber |-> sequenceNumber, PublishTime |-> publishTime]

EmptyPublishMessageResult == PublishMessageResult(0, 0, 0)

\* What fails in a publish and the error code returned for it
\* (awsqueueservice.go:124-127, 129-133, 143-147)
PublishFailures == {"client", "marshal", "publish"}

PublishErrorCode(failure) ==
    IF failure = "marshal" THEN "INTERNAL_SERVER_ERROR" ELSE "QUEUE_UNAVAILABLE"

\* A call of PublishCheckboxAction: its argument, the publish input made from
\* it, what the topic did ("accepted", "duplicate", or "error" when nothing
\* reached it), and the two values returned; err "nil" is no error.
PublishCall(payload, input, outcome, err, res) ==
    [payload |-> payload, input |-> input, outcome |-> outcome, err |-> err, result |-> res]

\* The place in the topic of the message that made the topic remember id.
AcceptedAs(id) ==
    CHOOSE k \in DOMAIN snsTopic :
        /\ snsTopic[k].MessageDeduplicationId = id
        /\ \A j \in DOMAIN snsTopic : snsTopic[j].MessageDeduplicationId = id => j <= k

\* part_004:87-128 with awsqueueservice.go:120-156, snsClient.Publish
\* succeeding: the topic accepts the message, or drops it as a duplicate.
PublishToTopic(payload) ==
    /\ Len(snsCalls) < MaxPublishes
    /\ LET input == PublishInput(CheckboxActionMessage(payload))
           duplicate == input.MessageDeduplicationId \in snsDedup
           \* SNS answers a duplicate with the ids of the message it kept
           id == IF duplicate THEN AcceptedAs(input.MessageDeduplicationId)
                 ELSE Len(snsTopic) + 1
       IN /\ snsCalls' = Append(snsCalls,
                 PublishCall(payload, input, IF duplicate THEN "duplicate" ELSE "accepted",
                             "nil", PublishMessageResult(id, id, Len(snsCalls) + 1)))
          /\ snsTopic' = IF duplicate THEN snsTopic ELSE Append(snsTopic, input)
          \* the topic delivers what it accepts to the subscribed queue
          /\ sqsStatus' = IF duplicate THEN sqsStatus ELSE Append(sqsStatus, "visible")
          /\ snsDedup' = snsDedup \cup {input.MessageDeduplicationId}
    /\ UNCHANGED <<sqsReceived, sqsDeleteRes, notPublish>>

\* A failing publish that returns no error.
PublishToTopicFails_Silent(payload, failure) ==
    /\ Len(snsCalls) < MaxPublishes
    /\ snsCalls' = Append(snsCalls,
           PublishCall(payload, PublishInput(CheckboxActionMessage(payload)), "error",
                       "nil", EmptyPublishMessageResult))
    /\ UNCHANGED <<snsDedup, snsTopic, sqsVars, notPublish>>

\* awsqueueservice.go:124-127, 129-133, 143-147 and part_004:114-119  the
\* client cannot be made, the message cannot be marshalled or the publish
\* fails: the error and an empty result are returned, nothing reaches the topic
PublishToTopicFails(payload, failure) ==
    /\ Len(snsCalls) < MaxPublishes
    /\ snsCalls' = Append(snsCalls,
           PublishCall(payload, PublishInput(CheckboxActionMessage(payload)), "error",
                       PublishErrorCode(failure), EmptyPublishMessageResult))
    /\ UNCHANGED <<snsDedup, snsTopic, sqsVars, notPublish>>

\* The deduplication interval of an id ends (SNS FIFO: five minutes).
DeduplicationExpires(id) ==
    /\ id \in snsDedup
    /\ snsDedup' = snsDedup \ {id}
    /\ UNCHANGED <<snsCalls, snsTopic, sqsVars, notPublish>>

NextPublish ==
    \/ \E payload \in Payloads : PublishToTopic(payload)
    \/ \E payload \in Payloads, failure \in PublishFailures : PublishToTopicFails(payload, failure)
    \/ \E id \in RequestUuids : DeduplicationExpires(id)

SpecPublish == Init /\ [][NextPublish]_vars

\* ------------------------------------------------------------ round trip
\* The queue subscribed to the topic, with raw message delivery: the body of
\* a queue message is the text handed to the topic.  PullCheckboxActionMessages
\* (awsqueueservice.go:38-93), Message.UnmarshalBody (part_004:63-69) and
\* DeleteMessage (awsqueueservice.go:95-118).
DigitValue(ch) == CHOOSE d \in 0 .. 9 : DigitChars[d + 1] = ch

RECURSIVE ParseDigits(_)
ParseDigits(text) ==
    IF Len(text) = 0 THEN 0
    ELSE 10 * ParseDigits(SubSeq(text, 1, Len(text) - 1)) + DigitValue(text[Len(text)])

\* encoding/json reading the text of a JSON number into an int
ParseInt(text) ==
    IF text[1] = "-" THEN 0 - ParseDigits(Tail(text)) ELSE ParseDigits(text)

\* awsqueueservice.go:69-74, 78-80  the Message made from a received one; the
\* message id and the receipt handle are the message's place in the queue
ReceivedMessage(k) ==
    [MessageId |-> k, ReceiptHandle |-> k, Body |-> snsTopic[k].Message,
     GroupId |-> snsTopic[k].MessageGroupId]

\* What json.Unmarshal makes of a body that has no header and no payload
\* member (a notification envelope): the zero value.
UnmarshalBody_Notification(body) ==
    [Header |-> [PayloadSchemaVersion |-> "", GroupId |-> <<>>, DeduplicationId |-> 0],
     Payload |-> [Action |-> "", CheckboxNbr |-> 0, UserUuid |-> 0, RequestUuid |-> 0]]

\* part_004:63-69  json.Unmarshal([]byte(m.Body), v) into a CheckboxActionMessage
UnmarshalBody(body) ==
    [Header |-> [PayloadSchemaVersion |-> body.header.payload_schema_version,
                 GroupId |-> body.header.group_id,
                 DeduplicationId |-> body.header.deduplication_id],
     Payload |-> [Action |-> body.payload.action,
                  CheckboxNbr |-> ParseInt(body.payload.checkbox_nbr),
                  UserUuid |-> body.payload.user_uuid,
                  RequestUuid |-> body.payload.request_uuid]]

\* awsqueueservice.go:38-93 with sqsClient.ReceiveMessage succeeding: the
\* visible messages are returned, oldest first, and their leases start
SqsReceiveMessage ==
    /\ sqsReceived' = [j \in 1 .. Cardinality({k \in DOMAIN sqsStatus : sqsStatus[k] = "visible"}) |->
                          ReceivedMessage(SortedSeq({k \in DOMAIN sqsStatus : sqsStatus[k] = "visible"})[j])]
    /\ sqsStatus' = [k \in DOMAIN sqsStatus |->
                        IF sqsStatus[k] = "visible" THEN "inflight" ELSE sqsStatus[k]]
    /\ UNCHANGED <<snsCalls, snsDedup, snsTopic, sqsDeleteRes, notPublish>>

\* awsqueueservice.go:95-118 with the queue reachable: the delete of a message
\* whose lease runs removes it, the delete of a removed one changes nothing,
\* the delete with a receipt handle whose lease is over is refused
SqsDeleteMessage(j) ==
    /\ j \in DOMAIN sqsReceived
    /\ LET id == sqsReceived[j].MessageId
       IN /\ sqsDeleteRes' = [MessageId |-> id,
                              err |-> IF sqsStatus[id] = "visible" THEN "QUEUE_UNAVAILABLE" ELSE "nil"]
          /\ sqsStatus' = IF sqsStatus[id] = "inflight"
                          THEN [sqsStatus EXCEPT ![id] = "deleted"]
                          ELSE sqsStatus
    /\ UNCHANGED <<snsCalls, snsDedup, snsTopic, sqsReceived, notPublish>>

\* awsqueueservice.go:101-105, 111-115  the client cannot be made or the
\* delete fails
SqsDeleteMessageFails(j) ==
    /\ j \in DOMAIN sqsReceived
    /\ sqsDeleteRes' = [MessageId |-> sqsReceived[j].MessageId, err |-> "QUEUE_UNAVAILABLE"]
    /\ UNCHANGED <<snsCalls, snsDedup, snsTopic, sqsStatus, sqsReceived, notPublish>>

\* The lease of a received message runs out (AWS_SQS_VISIBILITYTIMEOUT).
SqsVisibilityTimeout(k) ==
    /\ k \in DOMAIN sqsStatus
    /\ sqsStatus[k] = "inflight"
    /\ sqsStatus' = [sqsStatus EXCEPT ![k] = "visible"]
    /\ UNCHANGED <<snsCalls, snsDedup, snsTopic, sqsReceived, sqsDeleteRes, notPublish>>

NextRoundTrip ==
    \/ \E payload \in Payloads : PublishToTopic(payload)
    \/ SqsReceiveMessage
    \/ \E j \in 1 .. MaxPublishes : SqsDeleteMessage(j)
    \/ \E j \in 1 .. MaxPublishes : SqsDeleteMessageFails(j)
    \/ \E k \in 1 .. MaxPublishes : SqsVisibilityTimeout(k)

SpecRoundTrip == Init /\ [][NextRoundTrip]_vars

\* ------------------------------------------------------------ provider
\* getQueueProvider (part_004:58-85): providerOnce.Do runs the selection.
\* sync.Once.Do: a caller that reads done set returns at once; otherwise it
\* takes the mutex, reads done again, runs the function if it is still unset,
\* sets done when the function returns or panics, and releases the mutex.
notProvider == <<mainVars, batchVars, cacheVars, backoffVars, publishVars, apiVars, poolVars, statsVars,
               refreshVars,
               dbPoolVars>>

Callers == 1 .. NumCallers

\* part_004:132, :144, :112  the three callers of getQueueProvider
ProviderOps == {"publish", "pull", "delete"}

\* PublishCheckboxAction, PullCheckboxActionMessages or DeleteMessage calls
\* getQueueProvider
CallGetQueueProvider(g, op) ==
    /\ provPc[g] = "idle"
    /\ provPc' = [provPc EXCEPT ![g] = "do"]
    /\ provOp' = [provOp EXCEPT ![g] = op]
    /\ UNCHANGED <<providerInstance, onceDone, onceLock, selections, provUsed, notProvider>>

\* Do: done is set
OnceDoFast(g) ==
    /\ provPc[g] = "do"
    /\ onceDone
    /\ provPc' = [provPc EXCEPT ![g] = "return"]
    /\ UNCHANGED <<providerInstance, onceDone, onceLock, selections, provOp, provUsed, notProvider>>

\* Do: done is unset, the caller goes on to take the mutex
OnceDoSlow(g) ==
    /\ provPc[g] = "do"
    /\ ~onceDone
    /\ provPc' = [provPc EXCEPT ![g] = "lock"]
    /\ UNCHANGED <<providerInstance, onceDone, onceLock, selections, provOp, provUsed, notProvider>>

\* doSlow: o.m.Lock()
OnceLock(g) ==
    /\ provPc[g] = "lock"
    /\ onceLock = 0
    /\ onceLock' = g
    /\ provPc' = [provPc EXCEPT ![g] = "locked"]
    /\ UNCHANGED <<providerInstance, onceDone, selections, provOp, provUsed, notProvider>>

\* A Do that takes the mutex and runs the function without reading done again.
OnceLocked_NoSecondCheck(g) ==
    /\ provPc[g] = "locked"
    /\ selections' = selections + 1
    /\ provPc' = [provPc EXCEPT ![g] = "selecting"]
    /\ UNCHANGED <<providerInstance, onceDone, onceLock, provOp, provUsed, notProvider>>

\* Do, holding the mutex: done is read again; set, the mutex is released;
\* unset, the function is started
OnceLocked(g) ==
    /\ provPc[g] = "locked"
    /\ IF onceDone
       THEN /\ onceLock' = 0
            /\ provPc' = [provPc EXCEPT ![g] = "return"]
            /\ UNCHANGED selections
       ELSE /\ selections' = selections + 1
            /\ provPc' = [provPc EXCEPT ![g] = "selecting"]
            /\ UNCHANGED onceLock
    /\ UNCHANGED <<providerInstance, onceDone, provOp, provUsed, notProvider>>

\* part_004:73-82  the selection: whatever QUEUE_PROVIDER says, a new
\* awsQueueProvider; then done is set and the mutex released
SelectProvider(g, queueProvider) ==
    /\ provPc[g] = "selecting"
    /\ providerInstance' = selections
    /\ onceDone' = TRUE
    /\ onceLock' = 0
    /\ provPc' = [provPc EXCEPT ![g] = "return"]
    /\ UNCHANGED <<selections, provOp, provUsed, notProvider>>

\* part_004:73 with config.go:116-121  GetConfig panics while the
\* configuration cannot be initialised: done is set all the same, the mutex is
\* released, providerInstance stays nil and the caller's goroutine unwinds
SelectProviderPanics(g) ==
    /\ provPc[g] = "selecting"
    /\ onceDone' = TRUE
    /\ onceLock' = 0
    /\ provPc' = [provPc EXCEPT ![g] = "idle"]
    /\ provOp' = [provOp EXCEPT ![g] = "none"]
    /\ UNCHANGED <<providerInstance, selections, provUsed, notProvider>>

\* part_004:84  return providerInstance
ReturnProvider(g) ==
    /\ provPc[g] = "return"
    /\ provUsed' = [provUsed EXCEPT ![g] = providerInstance]
    /\ provPc' = [provPc EXCEPT ![g] = "idle"]
    /\ UNCHANGED <<providerInstance, onceDone, onceLock, selections, provOp, notProvider>>

NextProvider ==
    \/ \E g \in Callers, op \in ProviderOps : CallGetQueueProvider(g, op)
    \/ \E g \in Callers : OnceDoFast(g)
    \/ \E g \in Callers : OnceDoSlow(g)
    \/ \E g \in Callers : OnceLock(g)
    \/ \E g \in Callers : OnceLocked(g)
    \/ \E g \in Callers, queueProvider \in {"aws", "", "gcp"} : SelectProvider(g, queueProvider)
    \/ \E g \in Callers : SelectProviderPanics(g)
    \/ \E g \in Callers : ReturnProvider(g)

SpecProvider == Init /\ [][NextProvider]_vars

\* ------------------------------------------------------------ api validation
\* validateCheckboxNumber (validation.go:12-31) and the handlers checkboxCheck
\* and checkboxUncheck (api.go:119-211).  A path parameter is the sequence of
\* its characters.
notApi == <<mainVars, batchVars, cacheVars, backoffVars, publishVars, providerVars, poolVars, statsVars,
               refreshVars,
               dbPoolVars>>

ParamAlphabet == {"-", "+", "0", "1", "9", " ", "a"}

\* The checkboxNbr parameters requests carry: every text of up to MaxParamLen
\* characters, the numbers around both ends of the range in decimal, and a
\* number with blanks around it.
ParamTexts ==
    UNION {[1 .. q -> ParamAlphabet] : q \in 0 .. MaxParamLen}
      \cup {FormatInt(n) : n \in {0 - NumCheckboxes, 499999, 500000,
                                 NumCheckboxes - 2, NumCheckboxes - 1, NumCheckboxes,
                                 NumCheckboxes + 1, 10 * NumCheckboxes}}
      \cup {<<" ", " ">> \o FormatInt(123) \o <<" ", " ">>}

\* strings.TrimSpace
RECURSIVE TrimLeft(_)
TrimLeft(text) ==
    IF Len(text) > 0 /\ text[1] = " " THEN TrimLeft(Tail(text)) ELSE text

RECURSIVE TrimRight(_)
TrimRight(text) ==
    IF Len(text) > 0 /\ text[Len(text)] = " "
    THEN TrimRight(SubSeq(text, 1, Len(text) - 1)) ELSE text

TrimSpace(text) == TrimRight(TrimLeft(text))

IsDigit(ch) == \E d \in 1 .. 10 : DigitChars[d] = ch

\* strconv.Atoi: an optional sign, then one digit or more and nothing else
Atoi(text) ==
    LET signed == Len(text) > 0 /\ text[1] \in {"-", "+"}
        digits == IF signed THEN Tail(text) ELSE text
    IN IF Len(digits) = 0 \/ \E x \in DOMAIN digits : ~IsDigit(digits[x])
       THEN [ok |-> FALSE, val |-> 0]
       ELSE [ok |-> TRUE,
             val |-> IF signed /\ text[1] = "-" THEN 0 - ParseDigits(digits)
                     ELSE ParseDigits(digits)]

\* The range of the unit test: 1 up to and including NumCheckboxes.
CheckboxNbrInRange_OneBased(checkboxNbr) ==
    ~(checkboxNbr < 1 \/ checkboxNbr > NumCheckboxes)

\* The range with its upper end included.
CheckboxNbrInRange_Inclusive(checkboxNbr) ==
    ~(checkboxNbr < 0 \/ checkboxNbr > NumCheckboxes)

\* validation.go:26  if checkboxNbr < 0 || checkboxNbr >= 1000000
CheckboxNbrInRange(checkboxNbr) ==
    ~(checkboxNbr < 0 \/ checkboxNbr >= NumCheckboxes)

\* validation.go:12-31
validateCheckboxNumber(param) ==
    IF TrimSpace(param) = <<>>
    THEN [nbr |-> 0, err |-> "MISSING_CHECKBOX_NUMBER", why |-> "required"]
    ELSE IF ~Atoi(TrimSpace(param)).ok
    THEN [nbr |-> 0, err |-> "INVALID_CHECKBOX_NUMBER", why |-> "not a valid integer"]
    ELSE IF ~CheckboxNbrInRange(Atoi(TrimSpace(param)).val)
    THEN [nbr |-> 0, err |-> "INVALID_CHECKBOX_NUMBER", why |-> "range"]
    ELSE [nbr |-> Atoi(TrimSpace(param)).val, err |-> "nil", why |-> ""]

ApiCall(handler, param, v, httpStatus, wasPublished) ==
    [handler |-> handler, param |-> param, nbr |-> v.nbr, err |-> v.err, why |-> v.why,
     status |-> httpStatus, published |-> wasPublished,
     payloadNbr |-> IF wasPublished THEN v.nbr ELSE 0,
     payloadAction |-> IF wasPublished THEN handler ELSE ""]

\* A handler that publishes whatever number the parameter held.
CheckboxHandler_NoValidation(handler, param, userOk, uuidOk, publishOk) ==
    /\ apiRes = NoRequest
    /\ apiRes' = [handler |-> handler, param |-> param,
                  nbr |-> validateCheckboxNumber(param).nbr,
                  err |-> validateCheckboxNumber(param).err,
                  why |-> validateCheckboxNumber(param).why,
                  status |-> 200, published |-> TRUE,
                  payloadNbr |-> Atoi(TrimSpace(param)).val, payloadAction |-> handler]
    /\ UNCHANGED notApi

\* api.go:119-164 checkboxCheck, api.go:166-211 checkboxUncheck: the
\* parameters are validated (400), a request uuid is made (500), the payload is
\* published (the publisher's error), and 200 is answered.  userOk: the
\* userUuid parameter parses; uuidOk: NewRequestUuid succeeds; publishOk:
\* PublishCheckboxAction returns no error.
CheckboxHandler(handler, param, userOk, uuidOk, publishOk) ==
    /\ apiRes = NoRequest
    /\ apiRes' =
          IF validateCheckboxNumber(param).err # "nil"
          THEN ApiCall(handler, param, validateCheckboxNumber(param), 400, FALSE)
          ELSE IF ~userOk
          THEN ApiCall(handler, param,
                       [nbr |-> 0, err |-> "INVALID_USER_UUID", why |-> "user"], 400, FALSE)
          ELSE IF ~uuidOk
          THEN ApiCall(handler, param, validateCheckboxNumber(param), 500, FALSE)
          ELSE IF ~publishOk
          THEN ApiCall(handler, param, validateCheckboxNumber(param), 503, FALSE)
          ELSE ApiCall(handler, param, validateCheckboxNumber(param), 200, TRUE)
    /\ UNCHANGED notApi

\* The answer is written and the handler returns; the next request can come.
HandlerReturns ==
    /\ apiRes # NoRequest
    /\ apiRes' = NoRequest
    /\ UNCHANGED notApi

NextApi ==
    \/ \E handler \in Actions, param \in ParamTexts, userOk, uuidOk, publishOk \in BOOLEAN :
          CheckboxHandler(handler, param, userOk, uuidOk, publishOk)
    \/ HandlerReturns

SpecApi == Init /\ [][NextApi]_vars

\* ------------------------------------------------------------ worker pool
\* WorkerPool and Worker (workerpool.go): start, dispatch, the worker
\* goroutines, collectResults, reportStats and shutdown.  A select with more
\* than one ready case takes any of them.  The processor (WorkerProcessFunc)
\* is the caller's: it returns nil or an error and is taken to return.
notPool == <<mainVars, batchVars, cacheVars, backoffVars, publishVars, providerVars, apiVars,
            statsVars, refreshVars,
               dbPoolVars>>

Workers == 0 .. (NumWorkers - 1)

PoolCheckboxes == 0 .. (NumPoolCheckboxes - 1)

\* workerpool.go:147  make(chan WorkerResult, numWorkers*2)
ResultChCap == NumWorkers * 2

\* workerpool.go:75  make(chan queueservice.Message, 1)
MsgChanCap == 1

\* A selector that deals the messages out in turn, whatever their checkbox.
selector_RoundRobin(msg) == msg.id % NumWorkers

\* workerpool.go:133, :236  the WorkerPoolSelector given to NewWorkerPool: a
\* function of the message's checkbox (its partition)
selector(msg) == msg.nbr % NumWorkers

\* workerpool.go:102-108  the result a worker builds: MessageID, WorkerID,
\* Success
WorkerResult(messageId, workerId, success) ==
    [id |-> messageId, worker |-> workerId, success |-> success]

\* workerpool.go:29-41  Stats.record, under the lock; every result counts
\* one tick of duration
StatsRecord(stats, success) ==
    [processed |-> stats.processed + 1,
     succeeded |-> stats.succeeded + (IF success THEN 1 ELSE 0),
     failed |-> stats.failed + (IF success THEN 0 ELSE 1),
     totalTime |-> stats.totalTime + 1]

\* workerpool.go:159-172  start: every worker goroutine, the collector and the
\* reporter are started, each counted in wg
PoolStart ==
    /\ ~wpStarted
    /\ wpStarted' = TRUE
    /\ wpWorkerPc' = [w \in Workers |-> "select"]
    /\ wpCollectorPc' = "select"
    /\ wpReporterPc' = "select"
    /\ wpWg' = NumWorkers + 2
    /\ UNCHANGED <<wpCtxDone, wpMsgChan, wpCur, wpQuit, wpResultCh, wpResultClosed,
                   wpStats, wpReported, wpShutdownPc, wpDispatched, wpApplied, wpPanic,
                   notPool>>

\* the context given to start is cancelled
PoolCancel ==
    /\ ~wpCtxDone
    /\ wpCtxDone' = TRUE
    /\ UNCHANGED <<wpStarted, wpWorkerPc, wpMsgChan, wpCur, wpQuit, wpResultCh,
                   wpResultClosed, wpCollectorPc, wpReporterPc, wpStats, wpReported,
                   wpWg, wpShutdownPc, wpDispatched, wpApplied, wpPanic, notPool>>

\* dispatch with a plain send: it waits until the worker's channel has room.
Dispatch_Blocking(nbr) ==
    /\ Len(wpDispatched) < MaxDispatch
    /\ LET msg == [id |-> Len(wpDispatched) + 1, nbr |-> nbr]
           w == selector(msg)
       IN /\ Len(wpMsgChan[w]) < MsgChanCap
          /\ wpDispatched' = Append(wpDispatched, [msg |-> msg, worker |-> w, accepted |-> TRUE])
          /\ wpMsgChan' = [wpMsgChan EXCEPT ![w] = Append(@, msg)]
    /\ UNCHANGED <<wpCtxDone, wpStarted, wpWorkerPc, wpCur, wpQuit, wpResultCh,
                   wpResultClosed, wpCollectorPc, wpReporterPc, wpStats, wpReported,
                   wpWg, wpShutdownPc, wpApplied, wpPanic, notPool>>

\* workerpool.go:234-246  dispatch: the selector picks the worker; the message
\* goes into its channel, or is refused when the channel is full
Dispatch(nbr) ==
    /\ Len(wpDispatched) < MaxDispatch
    /\ LET msg == [id |-> Len(wpDispatched) + 1, nbr |-> nbr]
           w == selector(msg)
           accepted == Len(wpMsgChan[w]) < MsgChanCap
       IN /\ wpDispatched' = Append(wpDispatched, [msg |-> msg, worker |-> w, accepted |-> accepted])
          /\ wpMsgChan' = IF accepted THEN [wpMsgChan EXCEPT ![w] = Append(@, msg)] ELSE wpMsgChan
    /\ UNCHANGED <<wpCtxDone, wpStarted, wpWorkerPc, wpCur, wpQuit, wpResultCh,
                   wpResultClosed, wpCollectorPc, wpReporterPc, wpStats, wpReported,
                   wpWg, wpShutdownPc, wpApplied, wpPanic, notPool>>

\* workerpool.go:90-92  the worker's select takes ctx.Done()
WorkerCtxDone(w) ==
    /\ wpWorkerPc[w] = "select"
    /\ wpCtxDone
    /\ wpWorkerPc' = [wpWorkerPc EXCEPT ![w] = "exited"]
    /\ wpWg' = wpWg - 1
    /\ UNCHANGED <<wpCtxDone, wpStarted, wpMsgChan, wpCur, wpQuit, wpResultCh,
                   wpResultClosed, wpCollectorPc, wpReporterPc, wpStats, wpReported,
                   wpShutdownPc, wpDispatched, wpApplied, wpPanic, notPool>>

\* workerpool.go:94-96  the worker's select takes quit
WorkerQuit(w) ==
    /\ wpWorkerPc[w] = "select"
    /\ wpQuit[w]
    /\ wpWorkerPc' = [wpWorkerPc EXCEPT ![w] = "exited"]
    /\ wpWg' = wpWg - 1
    /\ UNCHANGED <<wpCtxDone, wpStarted, wpMsgChan, wpCur, wpQuit, wpResultCh,
                   wpResultClosed, wpCollectorPc, wpReporterPc, wpStats, wpReported,
                   wpShutdownPc, wpDispatched, wpApplied, wpPanic, notPool>>

\* The worker takes up the message at the head of its channel and leaves it
\* there.
WorkerReceive_KeepsMessage(w) ==
    /\ wpWorkerPc[w] = "select"
    /\ wpMsgChan[w] # <<>>
    /\ wpWorkerPc' = [wpWorkerPc EXCEPT ![w] = "processing"]
    /\ wpCur' = [wpCur EXCEPT ![w] = [id |-> Head(wpMsgChan[w]).id, nbr |-> Head(wpMsgChan[w]).nbr, success |-> FALSE]]
    /\ wpApplied' = Append(wpApplied, Head(wpMsgChan[w]).id)
    /\ UNCHANGED <<wpMsgChan, wpCtxDone, wpStarted, wpQuit, wpResultCh, wpResultClosed,
                   wpCollectorPc, wpReporterPc, wpStats, wpReported, wpWg, wpShutdownPc,
                   wpDispatched, wpPanic, notPool>>

\* workerpool.go:98-100  the worker's select takes a message and calls the
\* processor
WorkerReceive(w) ==
    /\ wpWorkerPc[w] = "select"
    /\ wpMsgChan[w] # <<>>
    /\ wpWorkerPc' = [wpWorkerPc EXCEPT ![w] = "processing"]
    /\ wpCur' = [wpCur EXCEPT ![w] = [id |-> Head(wpMsgChan[w]).id, nbr |-> Head(wpMsgChan[w]).nbr, success |-> FALSE]]
    /\ wpMsgChan' = [wpMsgChan EXCEPT ![w] = Tail(@)]
    /\ wpApplied' = Append(wpApplied, Head(wpMsgChan[w]).id)
    /\ UNCHANGED <<wpCtxDone, wpStarted, wpQuit, wpResultCh, wpResultClosed,
                   wpCollectorPc, wpReporterPc, wpStats, wpReported, wpWg, wpShutdownPc,
                   wpDispatched, wpPanic, notPool>>

\* workerpool.go:100-108  the processor returns, nil or an error
WorkerProcess(w, success) ==
    /\ wpWorkerPc[w] = "processing"
    /\ wpWorkerPc' = [wpWorkerPc EXCEPT ![w] = "sending"]
    /\ wpCur' = [wpCur EXCEPT ![w] = [@ EXCEPT !.success = success]]
    /\ UNCHANGED <<wpCtxDone, wpStarted, wpMsgChan, wpQuit, wpResultCh, wpResultClosed,
                   wpCollectorPc, wpReporterPc, wpStats, wpReported, wpWg, wpShutdownPc,
                   wpDispatched, wpApplied, wpPanic, notPool>>

\* workerpool.go:111-112  the result is sent; a send on a closed channel panics
WorkerSendResult(w) ==
    /\ wpWorkerPc[w] = "sending"
    /\ wpResultClosed \/ Len(wpResultCh) < ResultChCap
    /\ IF wpResultClosed
       THEN /\ wpPanic' = TRUE
            /\ UNCHANGED wpResultCh
       ELSE /\ wpResultCh' = Append(wpResultCh, WorkerResult(wpCur[w].id, w, wpCur[w].success))
            /\ UNCHANGED wpPanic
    /\ wpWorkerPc' = [wpWorkerPc EXCEPT ![w] = "select"]
    /\ wpCur' = [wpCur EXCEPT ![w] = NoWork]
    /\ UNCHANGED <<wpCtxDone, wpStarted, wpMsgChan, wpQuit, wpResultClosed,
                   wpCollectorPc, wpReporterPc, wpStats, wpReported, wpWg, wpShutdownPc,
                   wpDispatched, wpApplied, notPool>>

\* workerpool.go:113-116  the select of the send takes ctx.Done(): the result
\* is dropped and the worker returns
WorkerSendCancelled(w) ==
    /\ wpWorkerPc[w] = "sending"
    /\ wpCtxDone
    /\ wpWorkerPc' = [wpWorkerPc EXCEPT ![w] = "exited"]
    /\ wpCur' = [wpCur EXCEPT ![w] = NoWork]
    /\ wpWg' = wpWg - 1
    /\ UNCHANGED <<wpCtxDone, wpStarted, wpMsgChan, wpQuit, wpResultCh, wpResultClosed,
                   wpCollectorPc, wpReporterPc, wpStats, wpReported, wpShutdownPc,
                   wpDispatched, wpApplied, wpPanic, notPool>>

\* workerpool.go:191-192, 197-198  collectResults takes a result and records it;
\* a closed and empty channel yields the zero result
CollectorReceive ==
    /\ wpCollectorPc = "select"
    /\ wpResultCh # <<>> \/ wpResultClosed
    /\ wpStats' = StatsRecord(wpStats, IF wpResultCh # <<>> THEN Head(wpResultCh).success ELSE FALSE)
    /\ wpResultCh' = IF wpResultCh # <<>> THEN Tail(wpResultCh) ELSE wpResultCh
    /\ UNCHANGED <<wpCtxDone, wpStarted, wpWorkerPc, wpMsgChan, wpCur, wpQuit,
                   wpResultClosed, wpCollectorPc, wpReporterPc, wpReported, wpWg,
                   wpShutdownPc, wpDispatched, wpApplied, wpPanic, notPool>>

\* workerpool.go:179-181  collectResults takes ctx.Done()
CollectorCtxDone ==
    /\ wpCollectorPc = "select"
    /\ wpCtxDone
    /\ wpCollectorPc' = "draining"
    /\ UNCHANGED <<wpCtxDone, wpStarted, wpWorkerPc, wpMsgChan, wpCur, wpQuit,
                   wpResultCh, wpResultClosed, wpReporterPc, wpStats, wpReported, wpWg,
                   wpShutdownPc, wpDispatched, wpApplied, wpPanic, notPool>>

\* workerpool.go:182-185  the drain takes one result (the zero result from a
\* closed and empty channel)
CollectorDrain ==
    /\ wpCollectorPc = "draining"
    /\ wpResultCh # <<>> \/ wpResultClosed
    /\ wpStats' = StatsRecord(wpStats, IF wpResultCh # <<>> THEN Head(wpResultCh).success ELSE FALSE)
    /\ wpResultCh' = IF wpResultCh # <<>> THEN Tail(wpResultCh) ELSE wpResultCh
    /\ UNCHANGED <<wpCtxDone, wpStarted, wpWorkerPc, wpMsgChan, wpCur, wpQuit,
                   wpResultClosed, wpCollectorPc, wpReporterPc, wpReported, wpWg,
                   wpShutdownPc, wpDispatched, wpApplied, wpPanic, notPool>>

\* workerpool.go:186-187  nothing is left to drain: collectResults returns
CollectorDrained ==
    /\ wpCollectorPc = "draining"
    /\ wpResultCh = <<>>
    /\ ~wpResultClosed
    /\ wpCollectorPc' = "exited"
    /\ wpWg' = wpWg - 1
    /\ UNCHANGED <<wpCtxDone, wpStarted, wpWorkerPc, wpMsgChan, wpCur, wpQuit,
                   wpResultCh, wpResultClosed, wpReporterPc, wpStats, wpReported,
                   wpShutdownPc, wpDispatched, wpApplied, wpPanic, notPool>>

\* workerpool.go:222-223, 228-232  the ticker fires: printStats logs a snapshot
ReporterTick ==
    /\ wpReporterPc = "select"
    /\ wpReported # wpStats
    /\ wpReported' = wpStats
    /\ UNCHANGED <<wpCtxDone, wpStarted, wpWorkerPc, wpMsgChan, wpCur, wpQuit,
                   wpResultCh, wpResultClosed, wpCollectorPc, wpReporterPc, wpStats,
                   wpWg, wpShutdownPc, wpDispatched, wpApplied, wpPanic, notPool>>

\* workerpool.go:217-220  reportStats takes ctx.Done(): a last report, return
ReporterCtxDone ==
    /\ wpReporterPc = "select"
    /\ wpCtxDone
    /\ wpReported' = wpStats
    /\ wpReporterPc' = "exited"
    /\ wpWg' = wpWg - 1
    /\ UNCHANGED <<wpCtxDone, wpStarted, wpWorkerPc, wpMsgChan, wpCur, wpQuit,
                   wpResultCh, wpResultClosed, wpCollectorPc, wpStats, wpShutdownPc,
                   wpDispatched, wpApplied, wpPanic, notPool>>

\* shutdown that closes resultCh without waiting for the goroutines
ShutdownStop_CloseFirst ==
    /\ wpShutdownPc = "none"
    /\ wpStarted
    /\ wpQuit' = [w \in Workers |-> TRUE]
    /\ wpResultClosed' = TRUE
    /\ wpShutdownPc' = "waiting"
    /\ UNCHANGED <<wpCtxDone, wpStarted, wpWorkerPc, wpMsgChan, wpCur, wpResultCh,
                   wpCollectorPc, wpReporterPc, wpStats, wpReported, wpWg, wpDispatched,
                   wpApplied, wpPanic, notPool>>

\* workerpool.go:248-255  shutdown closes the quit channel of every worker and
\* goes on to wg.Wait()
ShutdownStop ==
    /\ wpShutdownPc = "none"
    /\ wpStarted
    /\ wpQuit' = [w \in Workers |-> TRUE]
    /\ wpShutdownPc' = "waiting"
    /\ UNCHANGED <<wpCtxDone, wpStarted, wpWorkerPc, wpMsgChan, wpCur, wpResultCh,
                   wpResultClosed, wpCollectorPc, wpReporterPc, wpStats, wpReported,
                   wpWg, wpDispatched, wpApplied, wpPanic, notPool>>

\* workerpool.go:257-262  wg.Wait() returns, resultCh is closed, shutdown returns
ShutdownReturn ==
    /\ wpShutdownPc = "waiting"
    /\ wpWg = 0
    /\ wpResultClosed' = TRUE
    /\ wpShutdownPc' = "returned"
    /\ UNCHANGED <<wpCtxDone, wpStarted, wpWorkerPc, wpMsgChan, wpCur, wpQuit,
                   wpResultCh, wpCollectorPc, wpReporterPc, wpStats, wpReported, wpWg,
                   wpDispatched, wpApplied, wpPanic, notPool>>


\* The steps of the pool's own goroutines and of a shutdown under way.
PoolStep ==
    \/ \E w \in Workers : WorkerCtxDone(w) \/ WorkerQuit(w) \/ WorkerReceive(w)
    \/ \E w \in Workers, success \in BOOLEAN : WorkerProcess(w, success)
    \/ \E w \in Workers : WorkerSendResult(w) \/ WorkerSendCancelled(w)
    \/ CollectorReceive
    \/ CollectorCtxDone
    \/ CollectorDrain
    \/ CollectorDrained
    \/ ReporterTick
    \/ ReporterCtxDone
    \/ ShutdownReturn

NextPool ==
    \/ PoolStart
    \/ PoolCancel
    \/ \E nbr \in PoolCheckboxes : Dispatch(nbr)
    \/ ShutdownStop
    \/ PoolStep

SpecPool == Init /\ [][NextPool]_vars

\* The goroutines of the pool and a shutdown under way keep running; when
\* the context is cancelled, when messages are dispatched and when shutdown is
\* called is up to the caller.
LivePool == Init /\ [][NextPool]_vars /\ WF_vars(PoolStep)

\* The same pool with a caller that dispatches at most MaxDelivered messages.
MaxDelivered == 2

NextDelivery ==
    \/ PoolStart
    \/ PoolCancel
    \/ \E nbr \in PoolCheckboxes : Len(wpDispatched) < MaxDelivered /\ Dispatch(nbr)
    \/ ShutdownStop
    \/ PoolStep

LiveDelivery == Init /\ [][NextDelivery]_vars /\ WF_vars(PoolStep)

\* ------------------------------------------------------------ Stats
\* Stats.record and Stats.snapshot (workerpool.go:21-57) statement by
\* statement, called by several goroutines at once.  mu is a sync.RWMutex:
\* Lock waits until no goroutine holds it in either mode, RLock until no
\* goroutine holds it for writing.
notStats == <<mainVars, batchVars, cacheVars, backoffVars, publishVars, providerVars, apiVars, poolVars,
             refreshVars,
               dbPoolVars>>

Recorders == 1 .. NumRecorders

Snapshotters == 1 .. NumSnapshotters

Durations == 0 .. MaxDuration

NoSnapshot == [processed |-> 0, succeeded |-> 0, failed |-> 0, avgTime |-> 0]

NoWorkerResult == [success |-> FALSE, duration |-> 0]

\* workerpool.go:30-31  record is called with a result and takes mu.Lock()
RecordLock(g, success, duration) ==
    /\ stRecPc[g] = "idle"
    /\ stDone + Cardinality({h \in Recorders : stRecPc[h] # "idle"}) < MaxRecords
    /\ stWriter = 0
    /\ stReaders = 0
    /\ stWriter' = g
    /\ stRecArg' = [stRecArg EXCEPT ![g] = [success |-> success, duration |-> duration]]
    /\ stRecPc' = [stRecPc EXCEPT ![g] = "locked"]
    /\ UNCHANGED <<stStats, stReaders, stSnapPc, stSnap, stDone, notStats>>

\* workerpool.go:34  s.processed++
RecordProcessed(g) ==
    /\ stRecPc[g] = "locked"
    /\ stStats' = [stStats EXCEPT !.processed = @ + 1]
    /\ stRecPc' = [stRecPc EXCEPT ![g] = "counted"]
    /\ UNCHANGED <<stWriter, stReaders, stRecArg, stSnapPc, stSnap, stDone, notStats>>

\* workerpool.go:35  s.totalTime += result.Duration
RecordTotalTime(g) ==
    /\ stRecPc[g] = "counted"
    /\ stStats' = [stStats EXCEPT !.totalTime = @ + stRecArg[g].duration]
    /\ stRecPc' = [stRecPc EXCEPT ![g] = "timed"]
    /\ UNCHANGED <<stWriter, stReaders, stRecArg, stSnapPc, stSnap, stDone, notStats>>

\* workerpool.go:37-41  s.succeeded++ or s.failed++
RecordOutcome(g) ==
    /\ stRecPc[g] = "timed"
    /\ stStats' = IF stRecArg[g].success
                  THEN [stStats EXCEPT !.succeeded = @ + 1]
                  ELSE [stStats EXCEPT !.failed = @ + 1]
    /\ stRecPc' = [stRecPc EXCEPT ![g] = "unlock"]
    /\ UNCHANGED <<stWriter, stReaders, stRecArg, stSnapPc, stSnap, stDone, notStats>>

\* workerpool.go:32  the deferred mu.Unlock(): record returns
RecordUnlock(g) ==
    /\ stRecPc[g] = "unlock"
    /\ stWriter' = 0
    /\ stDone' = stDone + 1
    /\ stRecArg' = [stRecArg EXCEPT ![g] = NoWorkerResult]
    /\ stRecPc' = [stRecPc EXCEPT ![g] = "idle"]
    /\ UNCHANGED <<stStats, stReaders, stSnapPc, stSnap, notStats>>

\* A snapshot that reads the counters without waiting for the writer.
SnapshotRLock_NoLock(g) ==
    /\ stSnapPc[g] = "idle"
    /\ stReaders' = stReaders + 1
    /\ stSnap' = [stSnap EXCEPT ![g] = NoSnapshot]
    /\ stSnapPc' = [stSnapPc EXCEPT ![g] = "rlocked"]
    /\ UNCHANGED <<stStats, stWriter, stRecPc, stRecArg, stDone, notStats>>

\* workerpool.go:44-45  snapshot takes mu.RLock(); its results start as zero
SnapshotRLock(g) ==
    /\ stSnapPc[g] = "idle"
    /\ stWriter = 0
    /\ stReaders' = stReaders + 1
    /\ stSnap' = [stSnap EXCEPT ![g] = NoSnapshot]
    /\ stSnapPc' = [stSnapPc EXCEPT ![g] = "rlocked"]
    /\ UNCHANGED <<stStats, stWriter, stRecPc, stRecArg, stDone, notStats>>

\* workerpool.go:48  processed = s.processed
SnapshotProcessed(g) ==
    /\ stSnapPc[g] = "rlocked"
    /\ stSnap' = [stSnap EXCEPT ![g].processed = stStats.processed]
    /\ stSnapPc' = [stSnapPc EXCEPT ![g] = "readP"]
    /\ UNCHANGED <<stStats, stWriter, stReaders, stRecPc, stRecArg, stDone, notStats>>

\* workerpool.go:49  succeeded = s.succeeded
SnapshotSucceeded(g) ==
    /\ stSnapPc[g] = "readP"
    /\ stSnap' = [stSnap EXCEPT ![g].succeeded = stStats.succeeded]
    /\ stSnapPc' = [stSnapPc EXCEPT ![g] = "readS"]
    /\ UNCHANGED <<stStats, stWriter, stReaders, stRecPc, stRecArg, stDone, notStats>>

\* workerpool.go:50  failed = s.failed
SnapshotFailed(g) ==
    /\ stSnapPc[g] = "readS"
    /\ stSnap' = [stSnap EXCEPT ![g].failed = stStats.failed]
    /\ stSnapPc' = [stSnapPc EXCEPT ![g] = "readF"]
    /\ UNCHANGED <<stStats, stWriter, stReaders, stRecPc, stRecArg, stDone, notStats>>

\* workerpool.go:52-54  avgTime is computed only when processed > 0
SnapshotAvgTime(g) ==
    /\ stSnapPc[g] = "readF"
    /\ stSnap' = IF stSnap[g].processed > 0
                 THEN [stSnap EXCEPT ![g].avgTime = stStats.totalTime \div stSnap[g].processed]
                 ELSE stSnap
    /\ stSnapPc' = [stSnapPc EXCEPT ![g] = "runlock"]
    /\ UNCHANGED <<stStats, stWriter, stReaders, stRecPc, stRecArg, stDone, notStats>>

\* workerpool.go:46, :56  the deferred mu.RUnlock(): snapshot returns
SnapshotRUnlock(g) ==
    /\ stSnapPc[g] = "runlock"
    /\ stReaders' = stReaders - 1
    /\ stSnapPc' = [stSnapPc EXCEPT ![g] = "returned"]
    /\ UNCHANGED <<stStats, stWriter, stRecPc, stRecArg, stSnap, stDone, notStats>>

\* workerpool.go:229-231  the caller has logged the values
SnapshotUsed(g) ==
    /\ stSnapPc[g] = "returned"
    /\ stSnapPc' = [stSnapPc EXCEPT ![g] = "idle"]
    /\ UNCHANGED <<stStats, stWriter, stReaders, stRecPc, stRecArg, stSnap, stDone,
                   notStats>>


NextStats ==
    \/ \E g \in Recorders, success \in BOOLEAN, duration \in Durations : RecordLock(g, success, duration)
    \/ \E g \in Recorders : RecordProcessed(g) \/ RecordTotalTime(g) \/ RecordOutcome(g) \/ RecordUnlock(g)
    \/ \E g \in Snapshotters : SnapshotRLock(g)
    \/ \E g \in Snapshotters : SnapshotProcessed(g) \/ SnapshotSucceeded(g) \/ SnapshotFailed(g)
    \/ \E g \in Snapshotters : SnapshotAvgTime(g) \/ SnapshotRUnlock(g) \/ SnapshotUsed(g)

SpecStats == Init /\ [][NextStats]_vars

\* ------------------------------------------------- the completion channels
\* The consumer (backendworker.go) and the worker pool (workerpool.go) share
\* no state and the consumer does not use the pool: a behaviour of the two
\* together is a behaviour of one beside the untouched other.
ConsumerUntouched == msgs = <<>> /\ pool = "nil" /\ ~cancelled /\ mpc = "select"

PoolUntouched == ~wpStarted /\ ~wpCtxDone /\ wpDispatched = <<>>

NextChannels ==
    \/ PoolUntouched /\ Next
    \/ ConsumerUntouched /\ NextPool

SpecChannels == Init /\ [][NextChannels]_vars

\* ------------------------------------------------- memory store, refreshed
\* LoadCheckboxesFromStore (part_005:53-65) in its two steps, the query of
\* GetFullCheckboxStore and the swap under mu, beside committed changes of
\* the table and calls of DoCheck made between the two.
notRefresh == <<mainVars, batchVars, backoffVars, publishVars, providerVars, apiVars, poolVars,
               statsVars,
               dbPoolVars>>

\* part_001:2-4  the script fills CHECKBOX_T with one unchecked row per
\* number; TableSizes are that and the one count GetFullCheckboxStore accepts.
TableSizes == {ExpectedRowCount, StoreSize}

DbPopulate(q) ==
    /\ rfDb = <<>>
    /\ rfDb' = [k \in 1 .. q |-> FALSE]
    /\ UNCHANGED <<rfLoadPc, rfSnapshot, rfCommits, cacheVars, notRefresh>>

\* part_003:142-168  a committed UPDATE of CHECKED_STATE for an existing row
DbCommit(n, v) ==
    /\ rfCommits < MaxDbCommits
    /\ n + 1 \in DOMAIN rfDb
    /\ rfDb' = [rfDb EXCEPT ![n + 1] = v]
    /\ rfCommits' = rfCommits + 1
    /\ UNCHANGED <<rfLoadPc, rfSnapshot, cacheVars, notRefresh>>

\* cmd/api-server/main.go:28  memorystore.Init() at start-up
RefreshCacheInit == ~initialized /\ CacheInit

\* part_005:54-58  GetFullCheckboxStore reads the table; its error is returned
LoadQuery ==
    /\ rfLoadPc = "idle"
    /\ rfDb # <<>>
    /\ IF GetFullCheckboxStore(rfDb).out = "ok"
       THEN /\ rfLoadPc' = "read"
            /\ rfSnapshot' = GetFullCheckboxStore(rfDb).store
       ELSE /\ rfLoadPc' = "failed"
            /\ UNCHANGED rfSnapshot
    /\ UNCHANGED <<rfDb, rfCommits, cacheVars, notRefresh>>

\* part_005:60-64  mu.Lock(); store = *newMemoryStore; mu.Unlock(); return nil
LoadSwap ==
    /\ rfLoadPc = "read"
    /\ store' = rfSnapshot
    /\ rfLoadPc' = "returned"
    /\ UNCHANGED <<rfDb, rfSnapshot, rfCommits, storeLen, initialized, cacheRes, notRefresh>>

\* LoadCheckboxesFromStore is called again
LoadAgain ==
    /\ rfLoadPc \in {"failed", "returned"}
    /\ rfLoadPc' = "idle"
    /\ rfSnapshot' = NilStore
    /\ UNCHANGED <<rfDb, rfCommits, cacheVars, notRefresh>>

\* part_005:41-51  DoCheck called and returning between the query and the swap
DoCheckDuringLoad(n, v) == rfLoadPc = "read" /\ DoCheck(n, v)

NextRefresh ==
    \/ \E q \in TableSizes : DbPopulate(q)
    \/ \E n \in 0 .. (StoreSize - 1), v \in BOOLEAN : DbCommit(n, v)
    \/ RefreshCacheInit
    \/ LoadQuery
    \/ LoadSwap
    \/ LoadAgain
    \/ \E n \in CacheIndices, v \in BOOLEAN : DoCheckDuringLoad(n, v)

SpecRefresh == Init /\ [][NextRefresh]_vars

\* ------------------------------------------------------ connection pool
\* postgreservice.go: the package variable pool and the functions that set
\* and test it, one call per step.  Whether the configuration is complete,
\* pgxpool accepts it, and the database answers is the environment's choice
\* at each call.
notDbPool == <<mainVars, batchVars, cacheVars, backoffVars, publishVars, providerVars, apiVars,
              poolVars, statsVars, refreshVars>>

DbPoolCall(op, err) == [op |-> op, err |-> err]

\* postgreservice.go:29-37, :43-46  what stops InitializePool before the pool
\* is created
ConfigErrors == {"DATABASE_URL is required", "DATABASE_USER is required",
                 "DATABASE_PASSWORD is required", "failed to parse database config"}

\* The operations that need the pool.
PoolOps == {"Query", "Exec", "BeginTx"}

\* postgreservice.go:20-22  already initialized
InitializePoolAgain ==
    /\ dpCalls < MaxPoolCalls
    /\ dpPool # "nil"
    /\ dpRes' = DbPoolCall("InitializePool", "nil")
    /\ dpCalls' = dpCalls + 1
    /\ UNCHANGED <<dpPool, dpPinged, notDbPool>>

\* postgreservice.go:24-46  a missing setting or a connection string that
\* does not parse: returned before pool is assigned
InitializePoolConfigFails(err) ==
    /\ dpCalls < MaxPoolCalls
    /\ dpPool = "nil"
    /\ dpRes' = DbPoolCall("InitializePool", err)
    /\ dpCalls' = dpCalls + 1
    /\ UNCHANGED <<dpPool, dpPinged, notDbPool>>

\* postgreservice.go:56-59  NewWithConfig fails: it returns a nil pool, which
\* is what pool is assigned
InitializePoolCreateFails ==
    /\ dpCalls < MaxPoolCalls
    /\ dpPool = "nil"
    /\ dpPool' = "nil"
    /\ dpRes' = DbPoolCall("InitializePool", "failed to create connection pool")
    /\ dpCalls' = dpCalls + 1
    /\ UNCHANGED <<dpPinged, notDbPool>>

\* postgreservice.go:56-64  the pool is created and assigned, the Ping fails
\* and the error is returned
InitializePoolPingFails ==
    /\ dpCalls < MaxPoolCalls
    /\ dpPool = "nil"
    /\ dpPool' = "open"
    /\ dpPinged' = FALSE
    /\ dpRes' = DbPoolCall("InitializePool", "failed to ping database")
    /\ dpCalls' = dpCalls + 1
    /\ UNCHANGED notDbPool

\* postgreservice.go:56-73  the pool is created, the Ping succeeds
InitializePoolSucceeds ==
    /\ dpCalls < MaxPoolCalls
    /\ dpPool = "nil"
    /\ dpPool' = "open"
    /\ dpPinged' = TRUE
    /\ dpRes' = DbPoolCall("InitializePool", "nil")
    /\ dpCalls' = dpCalls + 1
    /\ UNCHANGED notDbPool

\* postgreservice.go:131-137
ClosePool ==
    /\ dpCalls < MaxPoolCalls
    /\ dpPool' = "nil"
    /\ dpPinged' = FALSE
    /\ dpRes' = DbPoolCall("ClosePool", "nil")
    /\ dpCalls' = dpCalls + 1
    /\ UNCHANGED notDbPool

\* postgreservice.go:77-98, :102-128, :148-165  Query, Exec and BeginTx: the
\* test of pool, then the call on it, which the database lets succeed or not
UsePool(op, dbOk) ==
    /\ dpCalls < MaxPoolCalls
    /\ dpRes' = DbPoolCall(op, IF dpPool = "nil" THEN "database pool not initialized"
                               ELSE IF dbOk THEN "nil"
                               ELSE "failed")
    /\ dpCalls' = dpCalls + 1
    /\ UNCHANGED <<dpPool, dpPinged, notDbPool>>

NextDbPool ==
    \/ InitializePoolAgain
    \/ \E err \in ConfigErrors : InitializePoolConfigFails(err)
    \/ InitializePoolCreateFails
    \/ InitializePoolPingFails
    \/ InitializePoolSucceeds
    \/ ClosePool
    \/ \E op \in PoolOps, dbOk \in BOOLEAN : UsePool(op, dbOk)

SpecDbPool == Init /\ [][NextDbPool]_vars

\* ==================================================================
\* Properties
\* ==================================================================
Checked(m) == msgs[m].action = CheckboxActionChecked

\* UpdateCheckbox of unit k has begun its transaction and not yet returned.
InUpdateCheckbox(k) == units[k].pc \in {"exec1", "exec2", "commit"}

\* UpdateCheckbox of unit k has returned (with or without an error).
UpdateCheckboxReturned(k) ==
    \/ units[k].pc = "delete"
    \/ units[k].pc = "done" /\ units[k].err \in {"notinit", "update", "delete", "none"}

\* C1: two messages of one batch with the same checkboxNbr never have their
\* UpdateCheckbox calls in progress at the same time, and the later-delivered
\* one starts only after the earlier one has returned.
C1_SameCheckboxNeverConcurrent ==
    \A j \in DOMAIN units, k \in DOMAIN units :
        (j < k /\ Payload(j).form = "ok" /\ Payload(k).form = "ok"
               /\ Payload(j).nbr = Payload(k).nbr)
        => /\ ~(InUpdateCheckbox(j) /\ InUpdateCheckbox(k))
           /\ (InUpdateCheckbox(k) => UpdateCheckboxReturned(j))

\* The well-formed messages published for checkbox n.
ActionsFor(n) == {m \in MsgIds : msgs[m].nbr = n /\ msgs[m].form = "ok"}

LastOf(M) == CHOOSE m \in M : \A x \in M : x <= m

\* C2: once every action published for a checkbox has been deleted from the
\* transport, the durable state is that of the action published last and
\* lastRequestId is its request id (last writer by order wins).
C2_LastWriterByOrderWins ==
    \A n \in Rows :
        (ActionsFor(n) # {} /\ \A m \in ActionsFor(n) : status[m] = "deleted")
        => /\ checkbox_t[n] = Checked(LastOf(ActionsFor(n)))
           /\ details_t[n].req = RequestUuid(LastOf(ActionsFor(n)))

\* The state row and the details row of n are those of one UpdateCheckbox call
\* (or both are still as seeded).
RowsOfOneCall(n) ==
    IF details_t[n].req = NilUuid
    THEN /\ checkbox_t[n] = FALSE
         /\ details_t[n] = [by |-> NilUuid, req |-> NilUuid, at |-> 0]
    ELSE /\ details_t[n].req \in MsgIds
         /\ msgs[details_t[n].req].nbr = n
         /\ checkbox_t[n] = Checked(details_t[n].req)
         /\ details_t[n].by = msgs[details_t[n].req].user

\* A step that changes either row of n is the commit of one transaction on n
\* and makes both of that transaction's writes durable.
RowsChangeTogether(n) ==
    (checkbox_t'[n] # checkbox_t[n] \/ details_t'[n] # details_t[n])
    => \E k \in DOMAIN units :
          /\ units[k].pc = "commit"
          /\ Payload(k).nbr = n
          /\ checkbox_t'[n] = units[k].tx.state
          /\ details_t'[n] = units[k].tx.details
          /\ units'[k].committed

\* C3: UpdateCheckbox is atomic over the state row and the details row: in
\* every reachable durable state both rows reflect the same call or neither
\* does, and no step changes the details row without writing the state row in
\* the same transaction.
C3_UpdateCheckboxAtomic ==
    /\ [](\A n \in Rows : RowsOfOneCall(n))
    /\ [][\A n \in Rows : RowsChangeTogether(n)]_vars

\* C3 witness: a row committed by one call while another call on the same row
\* has made its first UPDATE inside a transaction that is not durable.
C3_Witness ==
    \E k \in DOMAIN units :
        /\ units[k].pc \in {"exec2", "commit"}
        /\ Payload(k).nbr \in Rows
        /\ details_t[Payload(k).nbr].req # NilUuid
        /\ units[k].tx.state # checkbox_t[Payload(k).nbr]

\* C4: a message is deleted only by a unit whose UpdateCheckbox committed; a
\* unit that failed in unmarshalling, uuid parsing or UpdateCheckbox has not
\* committed and leaves its message in the queue.
C4_DeleteOnlyAfterCommit ==
    /\ [](\A k \in DOMAIN units :
            units[k].err \in {"unmarshal", "useruuid", "requuid", "notinit", "update"}
            => ~units[k].committed /\ status[units[k].msg] # "deleted")
    /\ [][\A m \in MsgIds :
            (status[m] # "deleted" /\ status'[m] = "deleted")
            => \E k \in DOMAIN units :
                  /\ units[k].msg = m
                  /\ units[k].committed
                  /\ units[k].pc = "delete"]_vars
    /\ [][\A k \in DOMAIN units :
            (k \in DOMAIN units' /\ units'[k].committed /\ ~units[k].committed)
            => /\ units[k].pc = "commit"
               /\ Payload(k).nbr \in Rows
                  => /\ checkbox_t'[Payload(k).nbr] = units[k].tx.state
                     /\ details_t'[Payload(k).nbr] = units[k].tx.details]_vars

\* C4 witness: in one cycle a unit failed in UpdateCheckbox and its message is
\* still queued, while another unit's message was deleted.
C4_Witness ==
    \E j \in DOMAIN units, k \in DOMAIN units :
        /\ units[j].err = "update"
        /\ status[units[j].msg] = "inflight"
        /\ units[k].err = "none" /\ units[k].pc = "done"
        /\ status[units[k].msg] = "deleted"

\* Message m is a well-formed action that has been published.
Published(m) == m \in MsgIds /\ msgs[m].form = "ok"

\* The UpdateCheckbox of message m has committed.
Applied(m) == \E k \in DOMAIN units : units[k].msg = m /\ units[k].committed

\* C5: while the poll loop keeps running, every published action is
\* eventually applied to the durable store and deleted from the transport.
C5_EventuallyApplied ==
    \A m \in 1 .. MaxMsgs :
        /\ (Published(m) /\ status[m] # "deleted") ~> Applied(m)
        /\ Published(m) ~> (Published(m) /\ status[m] = "deleted")

\* C6: applying the same action (same requestId) a second time leaves the
\* durable rows (checked, lastUpdatedBy, lastRequestId, lastUpdatedAt) as the
\* first application left them.
C6_ApplyIdempotent ==
    [][\A k \in DOMAIN units :
          LET n == Payload(k).nbr
          IN  (/\ units[k].pc = "commit"
               /\ k \in DOMAIN units' /\ units'[k].committed
               /\ n \in Rows
               /\ details_t[n].req = RequestUuid(units[k].msg))
              => /\ checkbox_t'[n] = checkbox_t[n]
                 /\ details_t'[n] = details_t[n]]_vars

\* C7: a cycle that received exactly one well-formed "check" message for an
\* existing checkbox, and in which no database call, delete or goroutine
\* failed, returns (Success, 1) with the checkbox checked, the details
\* updated and the message deleted.
C7_SingleCheckEndToEnd ==
    (/\ mpc = "collect"
     /\ Len(batch) = 1
     /\ i = Len(batch)
     /\ msgs[batch[1]].form = "ok"
     /\ msgs[batch[1]].action = "check"
     /\ msgs[batch[1]].nbr \in Rows
     /\ units[1].err \notin {"update", "delete", "panic"})
    => /\ ConsumerResult(result, processed) = ConsumerResult(ResultSuccess, 1)
       /\ checkbox_t[msgs[batch[1]].nbr] = TRUE
       /\ details_t[msgs[batch[1]].nbr].req = RequestUuid(batch[1])
       /\ details_t[msgs[batch[1]].nbr].by = msgs[batch[1]].user
       /\ status[batch[1]] = "deleted"

\* C8: a receive of more than 100 messages makes the cycle return (Failure, 0)
\* with no unit dispatched or collected and no UpdateCheckbox or DeleteMessage
\* call made; a receive of exactly 100 messages is dispatched in full.
C8_BatchSafety ==
    /\ (bpc = "returned" /\ bReceived > 100)
       => /\ bResult = ConsumerResult(ResultFailure, 0)
          /\ bDispatched = 0
          /\ bI = 0
          /\ ~bCalled
    /\ (bpc \in {"collect", "returned"} /\ bReceived = 100) => bDispatched = 100
    /\ (bpc = "returned" /\ bReceived = 100) => bI = 100 /\ bProcessed + bFailed = 100

\* C8 witness: a cycle that received 101 messages has returned.
C8_Witness == bpc = "returned" /\ bReceived = 101 /\ bResult.Result = ResultFailure

\* A unit that has ended has put exactly one result on the channel, and one
\* that has not ended has put none.
OneResultPerUnit ==
    \A k \in DOMAIN units :
        /\ units[k].sent = (IF units[k].pc = "done" THEN 1 ELSE 0)
        /\ units[k].pc = "done" <=> units[k].res # "none"

\* The units that have sent their result.
Done == {k \in DOMAIN units : units[k].pc = "done"}

\* C9: every dispatched unit sends exactly one result on every path; the
\* cycle returns only when it has received one result per dispatched message,
\* with processed + failed equal to the batch size and no unit still running.
C9_Collecting ==
    /\ [](OneResultPerUnit)
    /\ [](mpc = "collect" =>
            /\ Len(units) = Len(batch)
            /\ i + Len(c) = Cardinality(Done)
            /\ processed + failed = i
            /\ processed = Cardinality({k \in Done : units[k].res = ResultSuccess})
                           - Cardinality({j \in 1 .. Len(c) : c[j] = ResultSuccess}))
    /\ [][(mpc = "collect" /\ mpc' # "collect")
            => /\ i = Len(batch)
               /\ processed + failed = Len(batch)
               /\ Done = DOMAIN units
               /\ c = <<>>
               /\ lastResult' = ConsumerResult(IF failed > 0 THEN ResultFailure
                                                            ELSE ResultSuccess, processed)]_vars

\* C9 witness: a cycle of two units, one that succeeded and one that failed,
\* is about to return.
C9_Witness ==
    /\ mpc = "collect"
    /\ Len(batch) = 2
    /\ i = 2
    /\ processed = 1
    /\ failed = 1

C11_PullErrorEndsCycle ==
    /\ [][PullFails => /\ lastResult' = ConsumerResult(ResultFailure, 0)
                       /\ units' = <<>>
                       /\ batch' = <<>>
                       /\ mpc' = "sleep"
                       /\ UNCHANGED <<status, checkbox_t, details_t>>]_vars
    /\ [](mpc = "exit" => cancelled)
    /\ (mpc = "sleep" /\ lastResult = ConsumerResult(ResultFailure, 0))
          ~> (mpc = "consume" \/ cancelled)

\* C11 witness: the loop sleeps after a failed receive while a message waits.
C11_Witness ==
    /\ mpc = "sleep"
    /\ lastResult = ConsumerResult(ResultFailure, 0)
    /\ ~cancelled
    /\ \E m \in MsgIds : status[m] = "visible"

\* No message of the queue is visible.
NoneVisible == \A m \in MsgIds : status[m] # "visible"

\* C12: with no message available the receive can hand out only the empty
\* batch, and a receive of the empty batch is not an error: the cycle goes
\* straight back to idle with (Success, 0), no unit started and the queue
\* untouched.
C12_EmptyReceiveIsSuccess ==
    /\ [](NoneVisible => \A S \in SUBSET MsgIds : Deliverable(S) => S = {})
    /\ []((mpc = "consume" /\ ~cancelled) => ENABLED PullCheckboxActionMessages({}))
    /\ [][PullCheckboxActionMessages({})
            => /\ lastResult' = ConsumerResult(ResultSuccess, 0)
               /\ mpc' = "sleep"
               /\ units' = <<>>
               /\ batch' = <<>>
               /\ UNCHANGED <<status, checkbox_t, details_t>>]_vars

\* C12 witness: a cycle that found the queue empty has returned.
C12_Witness ==
    /\ mpc = "sleep"
    /\ lastResult = ConsumerResult(ResultSuccess, 0)
    /\ NoneVisible
    /\ units = <<>>

\* The shortest sleep, in ticks.
MinSleep == consumeCheckboxActionMinSleepTimeDuration * TicksPerSecond

\* C13: after every cycle the sleep is max(5 s, 5 x runtime) of the measured
\* runtime: never shorter than 5 s and never shorter than 5 times the runtime.
C13_SleepIsMaxOfMinAndFiveTimesRuntime ==
    cycleKind # "none"
    => /\ sleeptime >= MinSleep
       /\ sleeptime >= sleepTimeMultiplier * cycleRuntime
       /\ sleeptime = (IF sleepTimeMultiplier * cycleRuntime > MinSleep
                       THEN sleepTimeMultiplier * cycleRuntime ELSE MinSleep)

\* C13 as the code has it: after every cycle, whatever its kind, the sleep is
\* at least 5 s, is a whole multiple of 5 s, and is 5 times the runtime
\* rounded to the nearest second, so it misses 5 x runtime by at most 2.5 s
\* either way unless the minimum applies; for a runtime of whole seconds it is
\* exactly max(5 s, 5 x runtime).
C13_SleepFromRoundedRuntime ==
    cycleKind # "none"
    => /\ sleeptime >= MinSleep
       /\ sleeptime % (sleepTimeMultiplier * TicksPerSecond) = 0
       /\ 2 * sleeptime >= 2 * sleepTimeMultiplier * cycleRuntime
                             - sleepTimeMultiplier * TicksPerSecond
       /\ sleeptime > MinSleep
             => 2 * sleeptime <= 2 * sleepTimeMultiplier * cycleRuntime
                                   + sleepTimeMultiplier * TicksPerSecond
       /\ cycleRuntime % TicksPerSecond = 0
             => sleeptime = (IF sleepTimeMultiplier * cycleRuntime > MinSleep
                             THEN sleepTimeMultiplier * cycleRuntime ELSE MinSleep)

\* C13 witness: a cycle whose runtime was rounded down slept longer than the
\* minimum and less than 5 times its runtime.
C13_Witness ==
    /\ cycleKind = "failed"
    /\ sleeptime > MinSleep
    /\ sleeptime < sleepTimeMultiplier * cycleRuntime

\* C14: once the context is cancelled the loop starts no new poll from its
\* top, no receive hands out a message and no batch is dispatched; a cycle in
\* flight is left only by its return, with every result collected; a sleep in
\* progress can be left at once; and the loop eventually exits and stays
\* exited.
C14_Shutdown ==
    /\ [][cancelled => /\ mpc = "select" => mpc' \in {"select", "exit"}
                       /\ units = <<>> => units' = <<>>
                       /\ \A m \in MsgIds :
                             status[m] # "inflight" => status'[m] # "inflight"]_vars
    /\ [][(cancelled /\ mpc = "collect" /\ mpc' # "collect")
            => /\ mpc' = "sleep"
               /\ i = Len(batch)
               /\ \A k \in DOMAIN units : units[k].pc = "done"]_vars
    /\ []((cancelled /\ mpc = "sleep") => ENABLED MainSleepCancelled)
    /\ [][mpc = "exit" => mpc' = "exit"]_vars
    /\ cancelled ~> (mpc = "exit")

\* C14 witness: the signal arrived during a cycle of two messages, which ran
\* on until both results were collected.
C14_Witness ==
    /\ cancelled
    /\ mpc = "collect"
    /\ Len(batch) = 2
    /\ i = Len(batch)

\* C15: a shutdown signal during a cycle takes no unit's transaction or
\* delete away: whatever call of UpdateCheckbox or DeleteMessage a unit is
\* about to make can still succeed, as it could without the signal.
C15_CancelDoesNotAbortBatch ==
    \A k \in DOMAIN units :
        /\ (units[k].pc = "begin" /\ pool = "open") => ENABLED BeginTx(k)
        /\ units[k].pc = "exec1" => ENABLED ExecCheckboxT(k)
        /\ units[k].pc = "exec2" => ENABLED ExecCheckboxDetailsT(k)
        /\ units[k].pc = "commit" => ENABLED CommitTx(k)
        /\ units[k].pc = "delete" => ENABLED DeleteMessage(k)

\* The call just made was op, with an index inside (or outside) [0, storeLen).
Returned(op) == cacheRes'.op = op /\ cacheRes' # cacheRes

\* C16: on an initialized cache, a DoCheck(n, v) with n in [0, N) sets cell n
\* to v and leaves every other cell as it was, and a GetCheckboxStatus(n)
\* made next, with no write or load in between, returns v.
C16_GetAfterDoCheck ==
    /\ [][(initialized /\ cacheRes'.op = "DoCheck" /\ cacheRes'.n \in 0 .. (StoreSize - 1)
            /\ (cacheRes' # cacheRes \/ store' # store))
           => /\ cacheRes'.out = "ok"
              /\ DOMAIN store' = DOMAIN store
              /\ store'[cacheRes'.n] = cacheRes'.v
              /\ \A x \in DOMAIN store \ {cacheRes'.n} : store'[x] = store[x]]_vars
    /\ [][(cacheRes.op = "DoCheck" /\ cacheRes.out = "ok"
            /\ cacheRes'.op = "Get" /\ cacheRes'.n = cacheRes.n)
           => /\ cacheRes'.out = "ok"
              /\ cacheRes'.val = cacheRes.v
              /\ store' = store]_vars

\* A read that returned TRUE right after the write of TRUE, with another cell
\* still FALSE.
C16_Witness ==
    /\ cacheRes.op = "Get" /\ cacheRes.out = "ok" /\ cacheRes.val = TRUE
    /\ \E x \in DOMAIN store : x # cacheRes.n /\ ~store[x]

\* C17 (as stated): a second Init fails fast with an InternalError and
\* allocates nothing.
C17_SecondInitInternalError ==
    [][(initialized /\ Returned("Init"))
        => /\ cacheRes'.out = "InternalError"
           /\ store' = store /\ storeLen' = storeLen /\ initialized' = initialized]_vars

\* C17 (amended): a second Init panics (Init returns no error value) and
\* allocates nothing: the array, its length and every cached value are as
\* before the call.
C17_SecondInitPanics ==
    [][(initialized /\ Returned("Init"))
        => /\ cacheRes'.out = "panic"
           /\ store' = store /\ storeLen' = storeLen /\ initialized' = initialized]_vars

\* A second Init has panicked and a checked cell is still checked.
C17_Witness ==
    /\ cacheRes.op = "Init" /\ cacheRes.out = "panic"
    /\ \E x \in DOMAIN store : store[x]

\* C18: the full-store load succeeds exactly when the query returned N rows
\* (StoreSize here); with any other count it returns an error, not a panic,
\* and the cache array is left as it was.
C18_LoadNeedsExactlyNRows ==
    [][Returned("Load")
        => /\ cacheRes'.out = "ok" <=> cacheRes'.n = StoreSize
           /\ cacheRes'.n # StoreSize => (cacheRes'.out = "DatabaseError" /\ store' = store)]_vars

\* C19: for an index outside [0, N), GetCheckboxStatus and DoCheck return a
\* validation (InvalidArgument-class) error, do not panic, and leave the cache
\* unchanged.
C19_InvalidIndexIsValidationError ==
    [][((Returned("Get") \/ Returned("DoCheck")) /\ ~checkboxNbrValid(cacheRes'.n))
        => /\ cacheRes'.out = "ValidationError"
           /\ store' = store /\ storeLen' = storeLen]_vars

\* C20: every publish input handed to the provider has a group id that is
\* the same for the same checkbox number and different for different ones, a
\* deduplication id equal to the payload's RequestUuid, and a body carrying
\* the payload as given; two publishes of one payload carry the same keys, and
\* a publish whose deduplication id the topic remembers adds nothing to it.
C20_PublishEnvelope ==
    /\ [](\A a, b \in DOMAIN snsCalls :
            /\ (snsCalls[a].input.MessageGroupId = snsCalls[b].input.MessageGroupId)
                  <=> (snsCalls[a].payload.CheckboxNbr = snsCalls[b].payload.CheckboxNbr)
            /\ snsCalls[a].input.MessageDeduplicationId = snsCalls[a].payload.RequestUuid
            /\ snsCalls[a].input.Message.header.group_id = snsCalls[a].input.MessageGroupId
            /\ snsCalls[a].input.Message.header.deduplication_id = snsCalls[a].payload.RequestUuid
            /\ snsCalls[a].input.Message.payload.action = snsCalls[a].payload.Action
            /\ snsCalls[a].input.Message.payload.checkbox_nbr = FormatInt(snsCalls[a].payload.CheckboxNbr)
            /\ snsCalls[a].input.Message.payload.user_uuid = snsCalls[a].payload.UserUuid
            /\ snsCalls[a].input.Message.payload.request_uuid = snsCalls[a].payload.RequestUuid
            /\ snsCalls[a].payload = snsCalls[b].payload
                  => snsCalls[a].input = snsCalls[b].input)
    /\ [][(Len(snsCalls') = Len(snsCalls) + 1
            /\ snsCalls'[Len(snsCalls')].payload.RequestUuid \in snsDedup)
           => snsTopic' = snsTopic]_vars

\* The same payload was published twice, the second time dropped as a
\* duplicate, and another checkbox was published as well.
C20_Witness ==
    \E a, b, d \in DOMAIN snsCalls :
        /\ a < b
        /\ snsCalls[a].payload = snsCalls[b].payload
        /\ snsCalls[a].outcome = "accepted"
        /\ snsCalls[b].outcome = "duplicate"
        /\ snsCalls[d].payload.CheckboxNbr # snsCalls[a].payload.CheckboxNbr

C23_ProviderResolvedOnce ==
    /\ [](selections <= 1)
    /\ [](\A g \in Callers : provPc[g] = "return" => (onceDone /\ selections = 1))
    /\ [](\A g, h \in Callers :
            (provUsed[g] # 0 /\ provUsed[h] # 0)
               => (provUsed[g] = provUsed[h] /\ provUsed[g] = providerInstance))
    /\ [][providerInstance # 0 => providerInstance' = providerInstance]_vars
    /\ [][\A g \in Callers : provUsed'[g] # provUsed[g] => provUsed'[g] = providerInstance]_vars

\* Three callers entered together; one ran the selection, the others waited
\* or came later, and all three hold the one instance.
C23_Witness ==
    /\ selections = 1
    /\ \A g \in Callers : provUsed[g] = 1
    /\ \E g, h \in Callers : provOp[g] = "publish" /\ provOp[h] = "pull"

\* The integers whose decimal text the properties look for among the
\* parameters: around zero, in the middle, and around both ends of the range.
CheckedInts ==
    ((0 - 120) .. 120) \cup {0 - NumCheckboxes, 499999, 500000}
       \cup ((NumCheckboxes - 2) .. (NumCheckboxes + 1)) \cup {10 * NumCheckboxes}

AppliedPos(id) ==
    IF \E k \in 1..Len(wpApplied) : wpApplied[k] = id
    THEN CHOOSE k \in 1..Len(wpApplied) : wpApplied[k] = id
    ELSE 0

\* The processor has returned for message id.
AppliedDone(id) == AppliedPos(id) > 0 /\ \A w \in Workers : wpCur[w].id = id => wpWorkerPc[w] = "sending"

\* C26: with a selector that is a function of the checkbox, two messages of
\* one checkbox are dispatched to the same worker; every message a worker has
\* taken up was accepted by dispatch for that worker; and when the later of
\* two accepted messages of one checkbox has been taken up, the processor has
\* already returned for the earlier one (one at a time, in dispatch order).
C26_SameCheckboxInDispatchOrder ==
    /\ \A d1 \in 1..Len(wpDispatched), d2 \in 1..Len(wpDispatched) :
          (d1 < d2 /\ wpDispatched[d1].msg.nbr = wpDispatched[d2].msg.nbr) =>
              /\ wpDispatched[d1].worker = wpDispatched[d2].worker
              /\ (wpDispatched[d1].accepted /\ wpDispatched[d2].accepted /\ AppliedPos(d2) > 0) =>
                     /\ AppliedPos(d1) > 0
                     /\ AppliedPos(d1) < AppliedPos(d2)
                     /\ AppliedDone(d1)
    /\ \A d3 \in 1..Len(wpApplied) :
          /\ wpApplied[d3] \in 1..Len(wpDispatched)
          /\ wpDispatched[wpApplied[d3]].accepted
          /\ \A d4 \in 1..Len(wpApplied) : wpApplied[d4] = wpApplied[d3] => d4 = d3
    /\ \A w \in Workers :
          wpCur[w] # NoWork =>
              /\ AppliedPos(wpCur[w].id) > 0
              /\ wpDispatched[wpCur[w].id].worker = w
              /\ wpDispatched[wpCur[w].id].msg.nbr = wpCur[w].nbr

\* Two messages of one checkbox were accepted and both have been processed,
\* while a message of another checkbox went to the other worker.
C26_Witness ==
    /\ Len(wpDispatched) = 3
    /\ \E d1 \in 1..3, d2 \in 1..3, d3 \in 1..3 :
          /\ d1 < d2
          /\ wpDispatched[d1].msg.nbr = wpDispatched[d2].msg.nbr
          /\ wpDispatched[d1].accepted /\ wpDispatched[d2].accepted
          /\ AppliedDone(d1) /\ AppliedDone(d2)
          /\ wpDispatched[d3].worker # wpDispatched[d1].worker
          /\ AppliedPos(d3) > 0

\* Every goroutine that start counted in wg has returned.
PoolGoroutinesExited ==
    /\ \A w \in Workers : wpWorkerPc[w] = "exited"
    /\ wpCollectorPc = "exited"
    /\ wpReporterPc = "exited"

\* C27: once shutdown() has been called on a started pool it eventually
\* returns, whether or not the context has been cancelled, and when it has
\* returned every worker, the result collector and the stats reporter have
\* exited; a worker exits only between two messages or after the processor
\* has returned for its current one.
C27_ShutdownReturnsAndLeaksNothing ==
    /\ (wpShutdownPc = "waiting") ~> (wpShutdownPc = "returned")
    /\ [](wpShutdownPc = "returned" => PoolGoroutinesExited)
    /\ [][\A w \in Workers : wpWorkerPc'[w] = "exited" => wpWorkerPc[w] \in {"exited", "select", "sending"}]_vars

\* C28: whenever no goroutine is inside record, processed = succeeded +
\* failed and processed is the number of record calls made; every snapshot
\* returns processed = succeeded + failed, and an average time of 0 when
\* processed = 0.
C28_StatsConsistent ==
    /\ stWriter = 0 =>
          /\ stStats.processed = stStats.succeeded + stStats.failed
          /\ stStats.processed = stDone
    /\ \A g \in Snapshotters :
          stSnapPc[g] = "returned" =>
              /\ stSnap[g].processed = stSnap[g].succeeded + stSnap[g].failed
              /\ stSnap[g].processed = 0 => stSnap[g].avgTime = 0
              /\ stSnap[g].processed <= stDone

\* A snapshot taken between record calls of two goroutines has returned two
\* results, one succeeded and one failed, with their average time, and a
\* third result was recorded afterwards.
C28_Witness ==
    /\ \E g \in Snapshotters :
          /\ stSnapPc[g] = "returned"
          /\ stSnap[g].processed = 2
          /\ stSnap[g].succeeded = 1
          /\ stSnap[g].failed = 1
          /\ stSnap[g].avgTime = 1
    /\ stDone = 3

\* C29: when DeleteMessage fails for a unit whose UpdateCheckbox committed,
\* the step changes nothing in CHECKBOX_T and CHECKBOX_DETAILS_T, puts exactly
\* one Failure on c, leaves the other units and the consumer where they are,
\* and leaves the message undeleted in the queue; and a batch, whatever its
\* results, ends with the loop going on to its sleep.
C29_DeleteFailureIsNotFatal ==
    /\ [][\A k \in DOMAIN units :
             (k \in DOMAIN units' /\ units[k].pc = "delete" /\ units'[k].err = "delete") =>
                 /\ units[k].committed
                 /\ checkbox_t' = checkbox_t
                 /\ details_t' = details_t
                 /\ units'[k].pc = "done"
                 /\ units'[k].res = ResultFailure
                 /\ units'[k].sent = 1
                 /\ c' = Append(c, ResultFailure)
                 /\ \A u \in DOMAIN units : u # k => units'[u] = units[u]
                 /\ mpc' = mpc
                 /\ status' = status
                 /\ status[units[k].msg] \in {"inflight", "visible"}]_vars
    /\ [][mpc = "collect" => mpc' \in {"collect", "sleep"}]_vars
    /\ [](\A k \in DOMAIN units :
             units[k].err = "delete" => status[units[k].msg] \in {"inflight", "visible"})

\* In one batch DeleteMessage failed for a unit that had committed its
\* change of checkbox 0, the message is still in flight, the row holds the
\* change, and the other unit of the batch went on to report Success.
C29_Witness ==
    /\ mpc = "collect"
    /\ Len(batch) = 2
    /\ \E k \in DOMAIN units, u \in DOMAIN units :
          /\ units[k].err = "delete"
          /\ units[k].committed
          /\ units[k].res = ResultFailure
          /\ status[units[k].msg] = "inflight"
          /\ units[u].res = ResultSuccess
          /\ status[units[u].msg] = "deleted"
    /\ i = 2
    /\ failed = 1
    /\ processed = 1

\* C30: ConsumeCheckboxActionQueue returns, and so closes c, only when all
\* results of the batch were received, every unit having sent exactly one
\* and finished; resultCh is closed only when every worker has exited; and no
\* unit sends twice and no worker sends on the closed resultCh.
C30_ClosedAfterAllReported ==
    /\ [][(mpc = "collect" /\ mpc' # "collect") =>
             /\ i = Len(batch)
             /\ c = <<>>
             /\ \A k \in DOMAIN units : units[k].pc = "done" /\ units[k].sent = 1]_vars
    /\ [](\A k \in DOMAIN units : units[k].sent <= 1 /\ (units[k].pc = "done" <=> units[k].sent = 1))
    /\ [](i + Len(c) <= Len(batch))
    /\ [](wpResultClosed => (wpShutdownPc = "returned" /\ PoolGoroutinesExited))
    /\ [](~wpPanic)

\* shutdown has returned and closed resultCh after the context was cancelled:
\* both workers have exited, each after sending the result of a message, and
\* the collector has taken both results off the channel.
C30_Witness ==
    /\ wpResultClosed
    /\ wpShutdownPc = "returned"
    /\ PoolGoroutinesExited
    /\ \A w \in Workers : \E d1 \in 1..Len(wpDispatched) :
          wpDispatched[d1].worker = w /\ AppliedPos(d1) > 0
    /\ wpStats.processed = 2
    /\ wpResultCh = <<>>

\* C31: when shutdown has completed, every result a worker produced (one for
\* each message whose processing it began, the processor having returned) has
\* been handed to handleResult and recorded in Stats exactly once, also when
\* the context was cancelled meanwhile.
C31_ResultsRecordedBeforeTeardown ==
    wpShutdownPc = "returned" =>
        /\ wpStats.processed = Len(wpApplied)
        /\ wpStats.processed = wpStats.succeeded + wpStats.failed

\* The call of dispatch recorded last.
LastDispatch == wpDispatched[Len(wpDispatched)]

\* C32: dispatch can always be called and returns at once; it returns nil
\* exactly when the selected worker's channel had room, and then the message
\* is the new last element of that channel and nothing else changes; when the
\* channel was full it returns the error and no channel and no worker changes.
C32_DispatchNeverBlocks ==
    /\ [](Len(wpDispatched) < MaxDispatch =>
             \A nbr \in PoolCheckboxes : ENABLED Dispatch(nbr))
    /\ [][Len(wpDispatched') = Len(wpDispatched) + 1 =>
             LET call == wpDispatched'[Len(wpDispatched')]
                 w == call.worker
             IN  /\ call.accepted <=> Len(wpMsgChan[w]) < MsgChanCap
                 /\ call.accepted => wpMsgChan' = [wpMsgChan EXCEPT ![w] = Append(@, call.msg)]
                 /\ ~call.accepted => wpMsgChan' = wpMsgChan
                 /\ \A v \in Workers : Len(wpMsgChan'[v]) <= MsgChanCap
                 /\ UNCHANGED <<wpWorkerPc, wpCur, wpQuit, wpResultCh, wpResultClosed,
                                wpStats, wpWg, wpApplied, wpPanic>>]_vars

\* dispatch has just returned the error for a message of checkbox 0, whose
\* worker is busy with one message of that checkbox and holds another in its
\* channel; the channel still holds that other message only.
C32_Witness ==
    /\ Len(wpDispatched) = 3
    /\ ~LastDispatch.accepted
    /\ wpDispatched[1].accepted /\ wpDispatched[2].accepted
    /\ \A d1 \in 1..3 : wpDispatched[d1].msg.nbr = 0
    /\ wpWorkerPc[0] = "processing"
    /\ wpCur[0].id = 1
    /\ wpMsgChan[0] = <<[id |-> 2, nbr |-> 0]>>

\* The units of the batch that reported r.
Reported(r) == {k \in DOMAIN units : units[k].res = r}

\* C33: when the cycle of a dispatched batch returns, NumProcessed is the
\* number of units that reported Success, and Result is Failure exactly when
\* some unit reported Failure.
C33_CycleResultAggregation ==
    [][(mpc = "collect" /\ mpc' # "collect") =>
          /\ lastResult'.NumProcessed = Cardinality(Reported(ResultSuccess))
          /\ lastResult'.Result = ResultFailure <=> Reported(ResultFailure) # {}
          /\ lastResult'.Result = ResultSuccess <=> Reported(ResultFailure) = {}
          /\ Reported(ResultSuccess) \cup Reported(ResultFailure) = DOMAIN units]_vars

\* A cycle has returned Failure with NumProcessed = 1: of its two units one
\* reported Success and one Failure.
C33_Witness ==
    /\ mpc = "sleep"
    /\ lastResult = ConsumerResult(ResultFailure, 1)

C35_SuccessMeansRowsChanged ==
    \A k \in DOMAIN units :
        units[k].res = ResultSuccess =>
            /\ status[units[k].msg] = "deleted"
            /\ units[k].committed
            /\ Payload(k).nbr \in Rows

\* What a unit can fail of.
UnitErrors == {"none", "unmarshal", "useruuid", "requuid", "notinit", "update", "delete", "panic"}

\* C36: the value a unit writes, and the value its commit makes durable, is
\* checked exactly when the payload's action is the checked constant and
\* unchecked for every other action string; no unit fails over its action:
\* the only failures are those of decoding the body and the uuids, of
\* UpdateCheckbox, of DeleteMessage and a panic.
C36_ActionDecoding ==
    /\ [][\A k \in DOMAIN units :
             (k \in DOMAIN units' /\ units[k].pc = "exec1" /\ units'[k].pc = "exec2") =>
                 units'[k].tx.state = (Payload(k).action = CheckboxActionChecked)]_vars
    /\ [][\A k \in DOMAIN units :
             (k \in DOMAIN units' /\ units[k].pc = "commit" /\ units'[k].committed
                 /\ Payload(k).nbr \in Rows) =>
                 checkbox_t'[Payload(k).nbr] = (Payload(k).action = CheckboxActionChecked)]_vars
    /\ [](\A k \in DOMAIN units :
             /\ units[k].err \in UnitErrors
             /\ (units[k].pc = "done" /\ units[k].err = "none") => units[k].res = ResultSuccess)

\* A message with the other action was applied after a "check" of the same
\* checkbox: its unit reported Success, the message is deleted and the
\* checkbox is unchecked again.
C36_Witness ==
    /\ Len(msgs) = 2
    /\ msgs[1].action = "check" /\ msgs[1].nbr = 0 /\ status[1] = "deleted"
    /\ msgs[2].action = OtherAction /\ msgs[2].nbr = 0 /\ status[2] = "deleted"
    /\ \E k \in DOMAIN units :
          /\ units[k].msg = 2
          /\ units[k].committed
          /\ units[k].res = ResultSuccess
    /\ checkbox_t[0] = FALSE
    /\ details_t[0].req = RequestUuid(2)

\* C37: InitializePool returns nil only when a pool exists that has answered
\* a Ping; an InitializePool that returned an error leaves no pool behind, so
\* that the next call starts over; and Query, Exec and BeginTx return the
\* "not initialized" error whenever no successfully pinged pool exists.
C37_NilOnlyWhenPinged ==
    /\ (dpRes.op = "InitializePool" /\ dpRes.err = "nil") => (dpPool = "open" /\ dpPinged)
    /\ (dpRes.op = "InitializePool" /\ dpRes.err # "nil") => dpPool = "nil"
    /\ (dpRes.op \in PoolOps /\ ~(dpPool = "open" /\ dpPinged)) =>
           dpRes.err = "database pool not initialized"

\* len(store)
StoreCells == Cardinality(DOMAIN store)

\* C38: after any sequence of Init, LoadCheckboxesFromStore, DoCheck and
\* GetCheckboxStatus, storeLen <= len(store); every index checkboxNbrValid
\* accepts is a cell of the array, so no read or write is out of range; and
\* while Init has not run, checkboxNbrValid accepts nothing and every
\* GetCheckboxStatus and DoCheck returns the error.
C38_StoreLenWithinStore ==
    /\ DOMAIN store = 0 .. (StoreCells - 1)
    /\ storeLen <= StoreCells
    /\ \A n \in CacheIndices : checkboxNbrValid(n) => n \in DOMAIN store
    /\ cacheRes.op \in {"Get", "DoCheck"} => cacheRes.out \in {"ok", "InternalError"}
    /\ ~initialized =>
          /\ storeLen = 0
          /\ \A n \in CacheIndices : ~checkboxNbrValid(n)
          /\ cacheRes.op \in {"Get", "DoCheck"} => cacheRes.out = "InternalError"

\* LoadCheckboxesFromStore ran before Init and installed its array; a
\* GetCheckboxStatus(0) after it still returned the error.
C38_Witness ==
    /\ ~initialized
    /\ StoreCells = StoreSize
    /\ storeLen = 0
    /\ cacheRes.op = "Get"
    /\ cacheRes.n = 0
    /\ cacheRes.out = "InternalError"

\* Message d was taken up by a worker and that worker is done with it.
Handled(d) == AppliedPos(d) > 0 /\ \A w \in Workers : wpCur[w].id # d

\* The pool has been started and is neither cancelled nor being shut down.
PoolRunning == wpStarted /\ ~wpCtxDone /\ wpShutdownPc = "none"

\* C39: a message dispatch accepted is taken up at most once, and only by the
\* worker the selector chose; every result sent is the one result of the
\* sending worker's current message and carries that message's id and that
\* worker's id; and while the pool runs, neither cancelled nor shut down,
\* every accepted message is eventually processed and its result sent.
C39_AcceptedProcessedOnce ==
    /\ [](\A d1 \in 1..Len(wpApplied) :
             /\ wpApplied[d1] \in 1..Len(wpDispatched)
             /\ wpDispatched[wpApplied[d1]].accepted
             /\ \A d2 \in 1..Len(wpApplied) : wpApplied[d2] = wpApplied[d1] => d2 = d1)
    /\ [](\A w \in Workers :
             wpCur[w] # NoWork =>
                 /\ wpDispatched[wpCur[w].id].worker = w
                 /\ wpDispatched[wpCur[w].id].worker = selector(wpDispatched[wpCur[w].id].msg)
                 /\ \A v \in Workers : v # w => wpCur[v].id # wpCur[w].id)
    /\ [][Len(wpResultCh') = Len(wpResultCh) + 1 =>
             \E w \in Workers :
                 /\ wpWorkerPc[w] = "sending"
                 /\ wpWorkerPc'[w] = "select"
                 /\ wpCur'[w] = NoWork
                 /\ wpDispatched[wpCur[w].id].worker = w
                 /\ wpResultCh' = Append(wpResultCh,
                                         WorkerResult(wpCur[w].id, w, wpCur[w].success))]_vars
    /\ []<>(\/ ~PoolRunning
            \/ \A d1 \in 1..Len(wpDispatched) : wpDispatched[d1].accepted => Handled(d1))

\* In a running pool two accepted messages of checkbox 1 have both been
\* processed by worker 1, and their two results wait in resultCh in dispatch
\* order, each with its message id and worker 1's id.
C39_Witness ==
    /\ PoolRunning
    /\ Len(wpDispatched) = 2
    /\ \A d1 \in 1..2 : /\ wpDispatched[d1].accepted
                        /\ wpDispatched[d1].msg.nbr = 1
                        /\ Handled(d1)
    /\ wpApplied = <<1, 2>>
    /\ wpResultCh = <<WorkerResult(1, 1, TRUE), WorkerResult(2, 1, FALSE)>>
====
